---- MODULE Spec2Model ----
(***************************************************************************)
(* A verification model of georgerosu26/workflowpro.                       *)
(*                                                                         *)
(*   SpecSlots : the free-slot scanner findAvailableTimeSlots.             *)
(*   SpecApi   : the tasks API (POST, PUT, PATCH, DELETE) over the store.  *)
(*   SpecCal   : TaskList with TaskCalendar in a browser page: drags and   *)
(*               resizes, their PATCH requests, the flush of positions on  *)
(*               unmount, tab changes, reloads, the position caches.       *)
(*   SpecRetry : the earlier TaskCalendar whose moveEvent retries its      *)
(*               PATCH and whose resizeEvent puts the event back.          *)
(*   SpecRetryFair : SpecRetry with the answers and the back-off timers    *)
(*               eventually arriving.                                      *)
(*   SpecRetryGone : SpecRetry with tasks deleted behind the calendar.     *)
(*   SpecSlotsTwice : findAvailableTimeSlots called twice by one caller.   *)
(*   SpecPatch : PATCH alone against one stored task.                      *)
(*   SpecBoard : TaskList with the kanban boards and the calendar.         *)
(*   SpecChat  : the chat components: prompts, uploads, suggested tasks.   *)
(*   SpecRefresh : SpecCal with refreshTasks events dispatched.            *)
(*   SpecLoad  : the calendar loading tasks and caches with any dates.     *)
(*   SpecOwner : the tasks API called by two users over owned tasks.       *)
(*   SpecDb    : connectToDatabase and its cache in one server process.    *)
(*   SpecUpload : the upload route polling for the uploaded file.          *)
(*   SpecStream : the schedule assistant reading a streamed answer.        *)
(*                                                                         *)
(* Time is counted in minutes from 00:00 of a Sunday (day 0), so that      *)
(* Date.getDay() of an instant t is (t \div one day) % 7, Sunday = 0.      *)
(* Local-time days are 24 hours long (no daylight-saving jump).            *)
(* In the browser part event instants are counted in hours and the clock   *)
(* in days.                                                                *)
(***************************************************************************)
EXTENDS Integers, Sequences, FiniteSets, TLC

VARIABLES
    \* ---- findAvailableTimeSlots: arguments, program counter, result
    calendarEvents,   \* the busy slots, a sequence of [start, end]
    taskDuration,     \* minutes
    startDate,        \* windowStart
    endDate,          \* windowEnd
    availableSlots,   \* the returned array
    slotPc,           \* "ready" | "done" | "again"
    \* ---- the Task Store (MongoDB collection behind /api/tasks)
    store,            \* task id -> stored task, or NoTask
    apiLast,          \* the last response of a direct API call: [op, status]
    \* ---- the browser: the clock, local storage, the network, the toaster
    now,              \* the clock, in days
    lsPositions,      \* localStorage['calendar_task_positions'], or NoItem
    lsTimestamp,      \* localStorage['calendar_task_positions_timestamp'], or NoItem
    net,              \* the PATCH requests in flight
    faults,           \* requests that failed so far
    drags,            \* the moveEvent/resizeEvent calls made, with their closures
    toasts,           \* per call: the toast.success and toast.error shown
    \* ---- TaskList
    tasks,            \* useState tasks: a sequence of fetched tasks
    activeTab,        \* searchParams.get('tab')
    loading,          \* useState loading
    error,            \* useState error (TRUE: an error message is shown)
    lastCalendarUpdate, \* useState lastCalendarUpdate is not null
    gets,             \* the GET /api/tasks in flight: the activeTab each fetchTasks closed over
    loads,            \* tab changes and page reloads so far
    \* ---- TaskCalendar
    myEvents,         \* useState myEvents: a sequence of [id, start, end, allDay]
    positionsChanged, \* useState positionsChanged
    globalTaskPositions, \* the module-level position map
    taskPositionsRef, \* useRef taskPositionsRef.current
    syncClosure,      \* myEvents and positionsChanged as the sync effect closed over them
    \* ---- the session filter of TaskList and the kanban board
    sessionId,        \* searchParams.get('session'), "" when the URL has none
    board,            \* which KanbanBoard the kanban tab renders
    localTasks,       \* useState localTasks of the board that keeps one
    drops,            \* the onDragEnd calls of the board, with their toasts
    \* ---- the chat with the assistant
    chat,             \* which chat component the page renders
    messages,         \* useState messages
    isLoading,        \* useState isLoading
    taskSuggestions,  \* useState taskSuggestions
    chatCalls,        \* the calls of its handlers, with their fetches and toasts
    \* ---- the refreshTasks events of the window
    signals,          \* the events dispatched, with what handleRefresh did
    \* ---- connectToDatabase and its module-level cache
    conn,             \* cached.conn is not null
    promise,          \* cached.promise: the connect it belongs to, 0 for null
    connects,         \* the calls of mongoose.connect: "pending" | "ok" | "failed"
    callers,          \* the calls of connectToDatabase, with what they await
    listeners,        \* the 'error' listeners registered on mongoose.connection
    \* ---- the upload route (POST of api/chat-history/route.ts)
    uploadPc,         \* "idle" | "loop" | "generate"
    processedFile,    \* processedFile.state, "none" outside a request
    attempts,         \* the local attempts
    uploads,          \* how the requests so far ended
    \* ---- handleSubmit of the schedule assistant reading the stream
    streamPc,         \* "idle" | "reading"
    streamRest,       \* what the server has still to send
    responseText,     \* the local responseText
    aiResponseData,   \* the local aiResponseData
    streams           \* the streams read to their end or to a failure

slotVars == <<calendarEvents, taskDuration, startDate, endDate, availableSlots, slotPc>>
apiVars == <<store, apiLast>>
storageVars == <<lsPositions, lsTimestamp>>
netVars == <<net, faults, drags, toasts>>
listVars == <<tasks, activeTab, loading, error, lastCalendarUpdate, gets, loads>>
calVars == <<myEvents, positionsChanged, globalTaskPositions, taskPositionsRef,
             syncClosure>>
browserVars == <<now, storageVars, netVars, listVars, calVars>>
boardVars == <<sessionId, board, localTasks, drops>>
chatVars == <<chat, messages, isLoading, taskSuggestions, chatCalls>>

signalVars == <<signals>>
dbVars == <<conn, promise, connects, callers, listeners>>
uploadVars == <<uploadPc, processedFile, attempts, uploads>>
streamVars == <<streamPc, streamRest, responseText, aiResponseData, streams>>
restVars == <<signalVars, dbVars, uploadVars, streamVars>>

vars == <<slotVars, apiVars, browserVars, boardVars, chatVars, restVars>>

\* what an action of one part leaves alone
notSlotVars == <<apiVars, browserVars, boardVars, chatVars, restVars>>
notApiVars == <<slotVars, browserVars, boardVars, chatVars, restVars>>
notBrowserVars == <<slotVars, apiLast, boardVars, chatVars, restVars>>

(***************************************************************************)
(* Dates                                                                   *)
(***************************************************************************)
DayLen == 24 * 60

\* the instant h:m on day d
At(d, h, m) == d * DayLen + h * 60 + m

\* Date.setHours(h, 0, 0, 0)
SetHours(t, h) == (t \div DayLen) * DayLen + h * 60

\* Date.getDay(): 0 = Sunday .. 6 = Saturday
GetDay(t) == (t \div DayLen) % 7

\* d.setDate(d.getDate() + 1)
NextDate(t) == t + DayLen

Max(a, b) == IF a >= b THEN a ELSE b

(***************************************************************************)
(* findAvailableTimeSlots                                                  *)
(***************************************************************************)
workingHoursStart == 9
workingHoursEnd == 17

\* [...calendarEvents].sort((a, b) => a.start - b.start): a stable sort
RECURSIVE InsertByStart(_, _)
InsertByStart(sorted, e) ==
    IF sorted = <<>> THEN <<e>>
    ELSE IF Head(sorted).start <= e.start
         THEN <<Head(sorted)>> \o InsertByStart(Tail(sorted), e)
         ELSE <<e>> \o sorted

RECURSIVE SortByStart(_)
SortByStart(events) ==
    IF events = <<>> THEN <<>>
    ELSE InsertByStart(SortByStart(SubSeq(events, 1, Len(events) - 1)),
                       events[Len(events)])

\* currentDate.getDay() === 0 || currentDate.getDay() === 6
IsWeekendSundayOnly(currentDate) == GetDay(currentDate) = 0
IsWeekend(currentDate) == GetDay(currentDate) = 0 \/ GetDay(currentDate) = 6

\* sortedEvents.filter(eventStart <= endOfDay && eventEnd >= currentDate)
OnDayNoUpperTest(event, currentDate, endOfDay) == event.end >= currentDate
OnDay(event, currentDate, endOfDay) ==
    event.start <= endOfDay /\ event.end >= currentDate

EventsForDay(sortedEvents, currentDate, endOfDay) ==
    SelectSeq(sortedEvents, LAMBDA event : OnDay(event, currentDate, endOfDay))

\* gapMinutes >= taskDuration
GapFitsStrict(gapMinutes, duration) == gapMinutes > duration
GapFits(gapMinutes, duration) == gapMinutes >= duration

\* timePointer = new Date(Math.max(timePointer, eventEnd))
AdvancePointerToEnd(timePointer, eventEnd) == eventEnd
AdvancePointer(timePointer, eventEnd) == Max(timePointer, eventEnd)

Slot(from, to, minutes) == [start |-> from, end |-> to, duration |-> minutes]

\* for (const event of eventsForDay) { ... }: the pointer and the slots after it
RECURSIVE ScanEvents(_, _, _, _)
ScanEvents(eventsForDay, timePointer, slots, duration) ==
    IF eventsForDay = <<>> THEN [timePointer |-> timePointer, slots |-> slots]
    ELSE LET event == Head(eventsForDay)
             gapMinutes == event.start - timePointer
             found == IF event.start > timePointer /\ GapFits(gapMinutes, duration)
                      THEN Append(slots, Slot(timePointer, event.start, gapMinutes))
                      ELSE slots
         IN  ScanEvents(Tail(eventsForDay),
                        AdvancePointer(timePointer, event.end), found, duration)

\* the body of the day loop for one business day
DaySlots(sortedEvents, currentDate, slots, duration) ==
    LET endOfDay == SetHours(currentDate, workingHoursEnd)
        eventsForDay == EventsForDay(sortedEvents, currentDate, endOfDay)
    IN  IF eventsForDay = <<>>
        THEN Append(slots, Slot(currentDate, endOfDay,
                                (workingHoursEnd - workingHoursStart) * 60))
        ELSE LET scan == ScanEvents(eventsForDay, currentDate, slots, duration)
                 gapMinutes == endOfDay - scan.timePointer
             IN  IF scan.timePointer < endOfDay /\ GapFits(gapMinutes, duration)
                 THEN Append(scan.slots, Slot(scan.timePointer, endOfDay, gapMinutes))
                 ELSE scan.slots

\* while (currentDate < endDate) { ... }
RECURSIVE DayLoop(_, _, _, _, _)
DayLoop(sortedEvents, currentDate, windowEnd, slots, duration) ==
    IF ~(currentDate < windowEnd) THEN slots
    ELSE LET next == SetHours(NextDate(currentDate), workingHoursStart)
         IN  IF IsWeekend(currentDate)
             THEN DayLoop(sortedEvents, next, windowEnd, slots, duration)
             ELSE DayLoop(sortedEvents, next, windowEnd,
                          DaySlots(sortedEvents, currentDate, slots, duration),
                          duration)

findAvailableTimeSlots(events, duration, windowStart, windowEnd) ==
    DayLoop(SortByStart(events), SetHours(windowStart, workingHoursStart),
            windowEnd, <<>>, duration)

(***************************************************************************)
(* Inputs of the slot finder.  Day 5 is a Friday, 6 and 7 the weekend,     *)
(* 8 the Monday after.                                                     *)
(***************************************************************************)
MaxBusy == 2

FridayPoints ==
    { At(5, 8, 0), At(5, 9, 0), At(5, 10, 0), At(5, 10, 30),
      At(5, 11, 0), At(5, 12, 0), At(5, 17, 0) }

FridaySlots ==
    { b \in [start : FridayPoints, end : FridayPoints] : b.start < b.end }

BusyPool ==
    FridaySlots \cup
    { [start |-> At(5, 12, 0), end |-> At(5, 18, 0)],
      [start |-> At(5, 17, 0), end |-> At(5, 18, 0)],
      [start |-> At(5, 12, 0), end |-> At(8, 10, 0)],
      [start |-> At(6, 10, 0), end |-> At(6, 12, 0)],
      [start |-> At(8, 10, 0), end |-> At(8, 12, 0)] }

Durations == { 30, 60, 8 * 60, 9 * 60 }

Windows ==
    { <<At(5, 0, 0), At(9, 0, 0)>>,     \* Friday 00:00 .. Tuesday 00:00
      <<At(6, 9, 0), At(8, 12, 0)>>,    \* Saturday 09:00 .. Monday 12:00
      <<At(5, 10, 0), At(5, 16, 0)>> }  \* Friday 10:00 .. Friday 16:00

BusyInputs == UNION { [1..n -> BusyPool] : n \in 0..MaxBusy }

(***************************************************************************)
(* Values that may be missing                                              *)
(***************************************************************************)
\* a date field: missing (undefined, null, ""), unparsable, or an instant
Absent == [kind |-> "absent"]
Invalid == [kind |-> "invalid"]
DateOf(t) == [kind |-> "date", t |-> t]

\* JavaScript truthiness of a date field of a request body
Truthy(d) == d # Absent
\* isNaN(new Date(d).getTime())
IsNaN(d) == d = Invalid

NoTask == [missing |-> TRUE]
NoUser == ""

TaskIds == { "A", "B" }
Users == { "u1", "u2" }
Statuses == { "todo", "in-progress", "done" }

(***************************************************************************)
(* PATCH /api/tasks/[id]                                                   *)
(***************************************************************************)
\* "Validate dates if provided": the 400 answers
DatesOrderedStrict(startD, dueD) == startD.t >= dueD.t
DatesOrderedNever(startD, dueD) == FALSE
DatesRejected(startD, dueD) == startD.t > dueD.t

PatchInvalid(body) ==
    /\ Truthy(body.startDate) \/ Truthy(body.dueDate)
    /\ \/ Truthy(body.startDate) /\ IsNaN(body.startDate)
       \/ Truthy(body.dueDate) /\ IsNaN(body.dueDate)
       \/ /\ Truthy(body.startDate) /\ Truthy(body.dueDate)
          /\ ~IsNaN(body.startDate) /\ ~IsNaN(body.dueDate)
          /\ DatesRejected(body.startDate, body.dueDate)

\* the error of the 400 answer
PatchError(body) ==
    IF Truthy(body.startDate) /\ IsNaN(body.startDate) THEN "Invalid start date format"
    ELSE IF Truthy(body.dueDate) /\ IsNaN(body.dueDate) THEN "Invalid due date format"
    ELSE "Start date cannot be after due date"

\* updateData applied to the stored task by findOneAndUpdate
PatchApply(task, body) ==
    [ task EXCEPT
        !.status = IF body.status # "" THEN body.status ELSE @,
        !.startDate = IF Truthy(body.startDate) THEN body.startDate ELSE @,
        !.dueDate = IF Truthy(body.dueDate) THEN body.dueDate ELSE @,
        !.isAllDay = IF body.isAllDay # "absent" THEN body.isAllDay = "true" ELSE @ ]

\* findOneAndUpdate({ id, userId: user.id }, ...) finds a task
OwnedAnyUser(st, user, id) == st[id] # NoTask
Owned(st, user, id) == st[id] # NoTask /\ st[id].userId = user

\* the handler: the response status and the store after it.  dbOk = FALSE is
\* connectToDatabase or the query throwing (the catch answers 500).
PATCH(st, user, id, body, dbOk) ==
    IF user = NoUser THEN [status |-> 401, store |-> st]
    ELSE IF ~dbOk THEN [status |-> 500, store |-> st]
    ELSE IF PatchInvalid(body)
    THEN [status |-> 400, store |-> st, error |-> PatchError(body)]
    ELSE IF ~Owned(st, user, id) THEN [status |-> 404, store |-> st]
    ELSE [status |-> 200, store |-> [st EXCEPT ![id] = PatchApply(st[id], body)]]

(***************************************************************************)
(* POST, PUT, DELETE /api/tasks                                            *)
(***************************************************************************)
\* tasksWithUser: { ...task, userId: user.id, id: task.id || uuid, status: task.status || 'todo' }
WithUserFromBody(task, user, id) ==
    [ userId |-> IF task.userId # "" THEN task.userId ELSE user,
      status |-> IF task.status # "" THEN task.status ELSE "todo",
      startDate |-> task.startDate, dueDate |-> task.dueDate,
      isAllDay |-> TRUE ]
WithUser(task, user, id) ==
    [ userId |-> user,
      status |-> IF task.status # "" THEN task.status ELSE "todo",
      startDate |-> task.startDate, dueDate |-> task.dueDate,
      isAllDay |-> TRUE ]

\* Task.create rejects a document: a required field is missing, a date does
\* not cast, or the id is taken (unique index)
CreateFails(st, task, id) ==
    \/ ~task.complete
    \/ IsNaN(task.startDate) \/ IsNaN(task.dueDate)
    \/ st[id] # NoTask

\* one task per request; newId is task.id, or the generated uuid
POST(st, user, task, newId, dbOk) ==
    IF user = NoUser THEN [status |-> 401, store |-> st]
    ELSE IF ~dbOk THEN [status |-> 500, store |-> st]
    ELSE IF CreateFails(st, task, newId) THEN [status |-> 400, store |-> st]
    ELSE [status |-> 200, store |-> [st EXCEPT ![newId] = WithUser(task, user, newId)]]

\* findOneAndUpdate({ id, userId }, { ...updateData, updatedAt }): no validators
PutApply(task, updateData) ==
    [ task EXCEPT
        !.userId = IF updateData.userId # "" THEN updateData.userId ELSE @,
        !.status = IF updateData.status # "" THEN updateData.status ELSE @,
        !.startDate = IF updateData.startDate # Absent THEN updateData.startDate ELSE @,
        !.dueDate = IF updateData.dueDate # Absent THEN updateData.dueDate ELSE @ ]

PUT(st, user, id, updateData, dbOk) ==
    IF user = NoUser THEN [status |-> 401, store |-> st]
    ELSE IF id = "" THEN [status |-> 400, store |-> st]
    ELSE IF ~dbOk \/ IsNaN(updateData.startDate) \/ IsNaN(updateData.dueDate)
         THEN [status |-> 500, store |-> st]
    ELSE IF ~Owned(st, user, id) THEN [status |-> 404, store |-> st]
    ELSE [status |-> 200, store |-> [st EXCEPT ![id] = PutApply(st[id], updateData)]]

DELETE(st, user, id, dbOk) ==
    IF user = NoUser THEN [status |-> 401, store |-> st]
    ELSE IF id = "" THEN [status |-> 400, store |-> st]
    ELSE IF ~dbOk THEN [status |-> 500, store |-> st]
    ELSE IF ~Owned(st, user, id) THEN [status |-> 404, store |-> st]
    ELSE [status |-> 200, store |-> [st EXCEPT ![id] = NoTask]]

(***************************************************************************)
(* SpecApi: direct calls of the tasks API                                  *)
(***************************************************************************)
MaxDate == 2

ApiDates == { DateOf(t) : t \in 1..MaxDate }
BodyDates == ApiDates \cup { Absent, Invalid }

\* the bodies the clients send: the calendar's { startDate, dueDate, isAllDay },
\* the board's { status } and { status: 'done', startDate, dueDate }; the dates
\* range over every combination of missing, unparsable and valid ones
PatchBodies ==
    [ status : {""}, startDate : BodyDates, dueDate : BodyDates,
      isAllDay : { "absent", "true" } ]
    \cup
    [ status : {"done"}, startDate : BodyDates, dueDate : BodyDates,
      isAllDay : { "absent" } ]

PostTasks ==
    [ id : TaskIds \cup {""}, userId : Users \cup {""}, status : {""},
      startDate : BodyDates, dueDate : BodyDates, complete : {TRUE} ]

PutBodies ==
    [ userId : {""}, status : {""}, startDate : BodyDates, dueDate : BodyDates ]

Callers == Users \cup {NoUser}

EmptyBody == [ status |-> "", startDate |-> Absent, dueDate |-> Absent,
               isAllDay |-> "absent" ]
EmptyPost == [ id |-> "", userId |-> "", status |-> "", startDate |-> Absent,
               dueDate |-> Absent, complete |-> FALSE ]
EmptyPut == [ userId |-> "", status |-> "", startDate |-> Absent, dueDate |-> Absent ]

InitStore == store = [id \in TaskIds |-> NoTask]

NoResponse == [op |-> "none", status |-> 0, error |-> ""]

InitApi ==
    /\ InitStore
    /\ apiLast = NoResponse

Respond(op, r) ==
    /\ store' = r.store
    /\ apiLast' = [ op |-> op, status |-> r.status,
                    error |-> IF "error" \in DOMAIN r THEN r.error ELSE "" ]
    /\ UNCHANGED notApiVars

ApiPost ==
    \E user \in Users, task \in PostTasks :
      \E newId \in (IF task.id # "" THEN {task.id}
                    ELSE { i \in TaskIds : store[i] = NoTask }) :
        Respond("POST", POST(store, user, task, newId, TRUE))

ApiPut ==
    \E user \in Users, id \in TaskIds, body \in PutBodies :
        Respond("PUT", PUT(store, user, id, body, TRUE))

ApiPatch ==
    \E user \in Users, id \in TaskIds, body \in PatchBodies :
        Respond("PATCH", PATCH(store, user, id, body, TRUE))

ApiDelete ==
    \E user \in Users, id \in TaskIds :
        Respond("DELETE", DELETE(store, user, id, TRUE))

\* the answers that do not read the body: no signed-in user (401), a failing
\* database (500), a task without its required fields (400), no id (400)
ApiRefused ==
    \E user \in Callers, dbOk \in BOOLEAN, id \in TaskIds :
        /\ user = NoUser \/ ~dbOk
        /\ \/ Respond("POST", POST(store, user, EmptyPost, id, dbOk))
           \/ Respond("PUT", PUT(store, user, id, EmptyPut, dbOk))
           \/ Respond("PATCH", PATCH(store, user, id, EmptyBody, dbOk))
           \/ Respond("DELETE", DELETE(store, user, id, dbOk))

ApiIncomplete ==
    \E user \in Users, id \in TaskIds :
        \/ Respond("POST", POST(store, user, EmptyPost, id, TRUE))
        \/ Respond("PUT", PUT(store, user, "", EmptyPut, TRUE))
        \/ Respond("DELETE", DELETE(store, user, "", TRUE))

NextApi ==
    \/ ApiPost
    \/ ApiPut
    \/ ApiPatch
    \/ ApiDelete
    \/ ApiRefused
    \/ ApiIncomplete

(***************************************************************************)
(* The browser: positions, events, requests                                *)
(*                                                                         *)
(* Instants of calendar events are counted in hours, the clock in days.    *)
(***************************************************************************)
\* the signed-in user of the browser session (currentUser() on the server)
SessionUser == "u1"

HoursPerDay == 24

\* startOfDay(new Date()), addHours(d, 1)
StartOfDay(day) == day * HoursPerDay
AddHours(t, h) == t + h

\* Date.toISOString() of a valid instant, and new Date(string).getTime():
\* NaN for a string that does not parse
NaN == -1
ToISOString(t) == DateOf(t)
NewDate(d) == IF d.kind = "date" THEN d.t ELSE NaN

\* a cached position { start, end } (two ISO strings), or none for the task
NoPos == [none |-> TRUE]
PosOf(s, e) == [start |-> ToISOString(s), end |-> ToISOString(e)]
NoPositions == [id \in TaskIds |-> NoPos]

\* localStorage.getItem(...) === null
NoItem == [item |-> "null"]

EventIndex(events, id) == { i \in 1..Len(events) : events[i].id = id }
HasEvent(events, id) == EventIndex(events, id) # {}
EventFor(events, id) == events[CHOOSE i \in EventIndex(events, id) : TRUE]

\* the map { [event.id]: { start: toISOString, end: toISOString } } of a list
PositionsOf(events) ==
    [ id \in TaskIds |->
        IF HasEvent(events, id)
        THEN PosOf(EventFor(events, id).start, EventFor(events, id).end)
        ELSE NoPos ]

\* Object.assign(target, source)
ObjectAssign(target, source) ==
    [ id \in TaskIds |-> IF source[id] # NoPos THEN source[id] ELSE target[id] ]

\* prev.filter(ev => ev.id !== event.id), then [...filtered, updatedEvent]
FilterOut(events, id) == SelectSeq(events, LAMBDA ev : ev.id # id)
AppendEvent(prev, updatedEvent) == Append(prev, updatedEvent)
ReplaceEvent(prev, updatedEvent) ==
    Append(FilterOut(prev, updatedEvent.id), updatedEvent)

\* the body { startDate, dueDate, isAllDay } of a position PATCH
PositionBody(s, e, allDay) ==
    [ status |-> "", startDate |-> ToISOString(s), dueDate |-> ToISOString(e),
      isAllDay |-> IF allDay THEN "true" ELSE "false" ]

\* a fetch in flight.  from: "drag" (n = the index of the call in drags) or
\* "sync" (n = the batch).  stage: "sent", then "answered" with the status
\* (0: the promise rejects, a network error).  then: who awaits the answer:
\* "live" (the mounted component), "detached" (its component is unmounted,
\* the toaster remains), "gone" (the page was left).
Request(from, n, id, body, then) ==
    [ from |-> from, n |-> n, task |-> id, body |-> body,
      stage |-> "sent", status |-> 0, then |-> then ]

NetworkError == 0

Sent(n) == { r \in n : r.stage = "sent" }
Answered(n) == { r \in n : r.stage = "answered" }

\* response.ok
ResponseOk(r) == r.status >= 200 /\ r.status <= 299

NoToasts == [success |-> 0, error |-> 0]
ToastSuccess(t, d) == [t EXCEPT ![d].success = @ + 1]
ToastError(t, d) == [t EXCEPT ![d].error = @ + 1]

\* the event shown for a task, as <<start, end>>; <<>> when none is shown
Displayed(id) ==
    IF HasEvent(myEvents, id)
    THEN <<EventFor(myEvents, id).start, EventFor(myEvents, id).end>>
    ELSE <<>>

\* the stored dates of a task, as <<start, end>>
Stored(id) ==
    IF store[id] = NoTask \/ store[id].startDate.kind # "date"
                          \/ store[id].dueDate.kind # "date"
    THEN <<>>
    ELSE <<store[id].startDate.t, store[id].dueDate.t>>

(***************************************************************************)
(* The server end of a PATCH request                                       *)
(***************************************************************************)
Faults == { "none", "db", "dropped", "lost" }

\* An answer that changes nothing in the browser: the page is gone, or the
\* answer belongs to a flush whose Promise.allSettled has nothing left to do
\* (the component is unmounted) or still waits for another request.
Unobserved(r) ==
    \/ r.then = "gone"
    \/ r.from = "sync" /\ r.then = "detached"
    \/ r.from = "sync" /\ \E q \in Sent(net) \ {r} : q.from = "sync" /\ q.n = r.n

\* the request reaches the route (unless it is dropped on the way) and the
\* answer reaches the browser (unless it is lost on the way back)
Serve(r, fault) ==
    LET ans == PATCH(store, SessionUser, r.task, r.body, fault # "db")
        reached == fault # "dropped"
        back == fault \in { "none", "db" }
    IN  /\ store' = IF reached THEN ans.store ELSE store
        /\ net' = (net \ {r}) \cup
                  IF Unobserved(r) THEN {}
                  ELSE { [r EXCEPT !.stage = "answered",
                                   !.status = IF back THEN ans.status ELSE NetworkError] }
        /\ faults' = IF fault = "none" THEN faults ELSE faults + 1

(***************************************************************************)
(* TaskCalendar: building the events from the tasks                        *)
(***************************************************************************)
FreshnessDays == 1

\* lastUpdate > oneDayAgo, with oneDayAgo = now - 1 day
Fresh(timestamp, today) == NewDate(timestamp) > today - FreshnessDays

\* the cached positions are usable: both items exist and are less than a day old
CacheUsable(positions, timestamp, today) ==
    /\ positions # NoItem
    /\ timestamp # NoItem
    /\ Fresh(timestamp, today)

\* the dates without "Ensure end is after start"
EventDatesUnordered(startD, endD, today) ==
    LET start0 == IF Truthy(startD) THEN NewDate(startD) ELSE StartOfDay(today)
        end0 == IF Truthy(endD) THEN NewDate(endD)
                ELSE IF start0 = NaN THEN NaN ELSE AddHours(start0, 1)
        start1 == IF start0 = NaN THEN StartOfDay(today) ELSE start0
        end1 == IF end0 = NaN THEN AddHours(start1, 1) ELSE end0
    IN  <<start1, end1>>

\* start and end of an event from two date fields, then "Ensure valid dates"
\* and "Ensure end is after start"
EventDates(startD, endD, today) ==
    LET start0 == IF Truthy(startD) THEN NewDate(startD) ELSE StartOfDay(today)
        end0 == IF Truthy(endD) THEN NewDate(endD)
                ELSE IF start0 = NaN THEN NaN ELSE AddHours(start0, 1)
        start1 == IF start0 = NaN THEN StartOfDay(today) ELSE start0
        end1 == IF end0 = NaN THEN AddHours(start1, 1) ELSE end0
        end2 == IF end1 <= start1 THEN AddHours(start1, 1) ELSE end1
    IN  <<start1, end2>>

\* tasks.map(task => ...): the stored position if there is one, else the task's dates
EventOfTask(task, positions, today) ==
    LET storedPosition == positions[task.id]
        dates == IF storedPosition # NoPos
                 THEN EventDates(storedPosition.start, storedPosition.end, today)
                 ELSE EventDates(task.startDate, task.dueDate, today)
    IN  [ id |-> task.id, start |-> dates[1], end |-> dates[2], allDay |-> FALSE ]

EventsOfTasks(taskList, positions, today) ==
    SortByStart([ i \in 1..Len(taskList) |-> EventOfTask(taskList[i], positions, today) ])

\* events built from the dates of the tasks alone
InitializeFromTasks(taskList, global, positions, timestamp, today) ==
    [ events |-> EventsOfTasks(taskList, NoPositions, today), global |-> global ]

\* the "Initialize events from tasks" effect: the events it sets and the
\* global map it leaves.  In-memory positions first, then the local-storage
\* cache while it is fresh, then the dates of the tasks.
InitializeEvents(taskList, global, positions, timestamp, today) ==
    IF global # NoPositions
    THEN [ events |-> EventsOfTasks(taskList, global, today), global |-> global ]
    ELSE IF CacheUsable(positions, timestamp, today)
    THEN [ events |-> EventsOfTasks(taskList, positions, today), global |-> positions ]
    ELSE LET newEvents == EventsOfTasks(taskList, NoPositions, today)
         IN  [ events |-> newEvents,
               global |-> ObjectAssign(global, PositionsOf(newEvents)) ]

(***************************************************************************)
(* TaskCalendar: the sync effect, commits, mounting and unmounting         *)
(***************************************************************************)
NoClosure == [ myEvents |-> <<>>, positionsChanged |-> FALSE ]

\* a number for a new batch of requests: the least one not in flight
NewBatch(requests) ==
    CHOOSE b \in 1..(Cardinality(requests) + 1) :
        /\ \A r \in requests : r.from = "sync" => r.n # b
        /\ \A c \in 1..(b - 1) : \E r \in requests : r.from = "sync" /\ r.n = c

\* syncPositionsToDatabase() of a closure: one PATCH per event it holds
SyncRequests(closure, batch, then) ==
    IF ~closure.positionsChanged \/ Len(closure.myEvents) = 0 THEN {}
    ELSE { Request("sync", batch, closure.myEvents[i].id,
                   PositionBody(closure.myEvents[i].start, closure.myEvents[i].end,
                                closure.myEvents[i].allDay),
                   then) : i \in 1..Len(closure.myEvents) }

\* The commit of a render in which myEvents or positionsChanged changed.  The
\* cleanup of the sync effect runs with the values it closed over (a flush,
\* then Object.assign(globalTaskPositions, taskPositionsRef.current)); the
\* effect closes over the new values; when myEvents was set, the [myEvents]
\* effect records the positions in the ref, the global map and local storage.
Commit(events, changed, eventsSet, global, requests) ==
    LET flush == SyncRequests(syncClosure, NewBatch(requests), "live")
        global1 == ObjectAssign(global, taskPositionsRef)
        record == eventsSet /\ Len(events) > 0
        newPositions == PositionsOf(events)
    IN  /\ myEvents' = events
        /\ positionsChanged' = changed
        /\ syncClosure' = [ myEvents |-> events, positionsChanged |-> changed ]
        /\ net' = requests \cup flush
        /\ taskPositionsRef' = IF record THEN newPositions ELSE taskPositionsRef
        /\ globalTaskPositions' =
               IF record THEN ObjectAssign(global1, newPositions) ELSE global1
        /\ lsPositions' = IF record THEN newPositions ELSE lsPositions
        /\ lsTimestamp' = IF record THEN ToISOString(now) ELSE lsTimestamp

\* setPositionsChanged(false) by a continuation of a mounted component
SetPositionsUnchanged(requests) ==
    IF positionsChanged
    THEN Commit(myEvents, FALSE, FALSE, globalTaskPositions, requests)
    ELSE /\ net' = requests
         /\ UNCHANGED <<storageVars, calVars>>

\* the continuations of the requests in flight after their component is gone
Detach(requests) ==
    { [r EXCEPT !.then = IF @ = "live" THEN "detached" ELSE @] : r \in requests }

\* The calendar is rendered by TaskList under the calendar tab, once the tasks
\* are loaded.
Mounted == ~loading /\ ~error /\ activeTab = "calendar"

\* Unmounting: the cleanup of the sync effect, then the state is dropped.
\* The flush it sends completes after the component is gone.
CalendarCleanup(requests) ==
    LET flush == SyncRequests(syncClosure, NewBatch(requests), "detached")
    IN  /\ net' = Detach(requests) \cup flush
        /\ globalTaskPositions' = ObjectAssign(globalTaskPositions, taskPositionsRef)
        /\ myEvents' = <<>>
        /\ positionsChanged' = FALSE
        /\ syncClosure' = NoClosure
        /\ taskPositionsRef' = NoPositions

UnmountCalendar(requests) == CalendarCleanup(requests) /\ UNCHANGED storageVars

\* Mounting with the tasks given: the initial state is (no events, positions
\* unchanged); the effects run, and the initialize effect sets the events.
MountCalendar(taskList) ==
    IF Len(taskList) = 0
    THEN /\ myEvents' = <<>>
         /\ positionsChanged' = FALSE
         /\ syncClosure' = NoClosure
         /\ taskPositionsRef' = NoPositions
         /\ UNCHANGED <<globalTaskPositions, net, storageVars>>
    ELSE LET init == InitializeEvents(taskList, globalTaskPositions, lsPositions,
                                      lsTimestamp, now)
             newPositions == PositionsOf(init.events)
         IN  /\ myEvents' = init.events
             /\ positionsChanged' = FALSE
             /\ syncClosure' = [ myEvents |-> init.events, positionsChanged |-> FALSE ]
             /\ taskPositionsRef' = newPositions
             /\ globalTaskPositions' = ObjectAssign(init.global, newPositions)
             /\ lsPositions' = newPositions
             /\ lsTimestamp' = ToISOString(now)
             /\ UNCHANGED net

\* The tasks prop of a mounted calendar changes: the initialize effect runs
\* again and sets the events (a commit, with the flush of the old closure).
TasksChanged(taskList) ==
    IF Len(taskList) = 0
    THEN UNCHANGED <<calVars, net, storageVars>>
    ELSE LET init == InitializeEvents(taskList, globalTaskPositions, lsPositions,
                                      lsTimestamp, now)
         IN  Commit(init.events, positionsChanged, TRUE, init.global, net)

(***************************************************************************)
(* GET /api/tasks and TaskList.fetchTasks                                  *)
(***************************************************************************)
\* .sort({ createdAt: -1 }): B was created after A
NewestFirst == <<"B", "A">>

\* a task as the JSON of the response carries it
TaskJson(id, task) ==
    [ id |-> id, status |-> task.status,
      startDate |-> task.startDate, dueDate |-> task.dueDate ]

GET(st, user, dbOk) ==
    IF user = NoUser THEN [status |-> 401, tasks |-> <<>>]
    ELSE IF ~dbOk THEN [status |-> 500, tasks |-> <<>>]
    ELSE LET found == SelectSeq(NewestFirst, LAMBDA id : Owned(st, user, id))
         IN  [ status |-> 200,
               tasks |-> [ i \in 1..Len(found) |-> TaskJson(found[i], st[found[i]]) ] ]

\* "Apply stored positions to fetched tasks"
TaskWithPosition(task, positions) ==
    IF positions[task.id] # NoPos
    THEN [ task EXCEPT !.startDate = positions[task.id].start,
                       !.dueDate = positions[task.id].end ]
    ELSE task

\* what fetchTasks hands to setTasks: on the calendar tab the cached
\* positions, whenever the item exists, go over the fetched dates
TasksToSet(tab, newTasks, positions) ==
    IF tab = "calendar" /\ positions # NoItem
    THEN [ i \in 1..Len(newTasks) |-> TaskWithPosition(newTasks[i], positions) ]
    ELSE newTasks

Tabs == { "calendar", "kanban" }

\* What the user and the world around the page do is bounded in total (the
\* drags, the tab changes and reloads, the days that pass, the failures, the
\* refreshTasks events), and so are the drags among them.
MaxDrags == 2
MaxEvents == 3

\* the day the page is opened
Today == 1

Spent == Len(drags) + loads + (now - Today) + faults + Len(signals)

\* fetchTasks() is called: setLoading(true) takes the tabs, and the calendar
\* with them, off the screen
FetchTasksCalled(closures) ==
    /\ loading' = TRUE
    /\ gets' = gets \cup closures
    /\ IF Mounted THEN UnmountCalendar(net)
       ELSE UNCHANGED <<calVars, storageVars, net>>

\* handleTabChange(value), router.push, and the effect that fetches when
\* activeTab changed
HandleTabChange(value) ==
    /\ ~loading /\ ~error
    /\ value # activeTab
    /\ Spent < MaxEvents
    /\ loads' = loads + 1
    /\ activeTab' = value
    /\ IF activeTab = "calendar" /\ value # "calendar"
       THEN lastCalendarUpdate' = TRUE /\ FetchTasksCalled({value})
       ELSE IF value = "calendar" /\ lastCalendarUpdate
       THEN UNCHANGED lastCalendarUpdate /\ FetchTasksCalled({value})
       ELSE UNCHANGED lastCalendarUpdate /\ FetchTasksCalled({activeTab, value})
    /\ UNCHANGED <<now, store, faults, drags, toasts, tasks, error, notBrowserVars>>

\* the answer to a fetchTasks that closed over activeTab = tab
FetchTasksDone(tab, dbOk) ==
    /\ tab \in gets
    /\ dbOk \/ Spent < MaxEvents
    /\ gets' = gets \ {tab}
    /\ loading' = FALSE
    /\ LET response == GET(store, SessionUser, dbOk)
       IN  IF response.status = 200
           THEN /\ tasks' = TasksToSet(tab, response.tasks, lsPositions)
                /\ error' = FALSE
                /\ faults' = faults
                /\ IF activeTab # "calendar"
                   THEN UNCHANGED <<calVars, storageVars, net>>
                   ELSE IF Mounted THEN TasksChanged(tasks')
                   ELSE MountCalendar(tasks')
           ELSE /\ tasks' = <<>>
                /\ error' = TRUE
                /\ faults' = faults + 1
                /\ IF Mounted THEN UnmountCalendar(net)
                   ELSE UNCHANGED <<calVars, storageVars, net>>
    /\ UNCHANGED <<now, store, drags, toasts, activeTab, lastCalendarUpdate, loads,
                   notBrowserVars>>

\* the requests of a page that was left: the answers reach nobody
LeavePage(requests) ==
    { [r EXCEPT !.then = "gone"] : r \in Sent(requests) }

\* The page is reloaded.  A mounted calendar runs handleBeforeUnload; the
\* module state is lost; TaskList mounts and fetches.
Reload ==
    /\ Spent < MaxEvents
    /\ loads' = loads + 1
    /\ IF Mounted
       THEN LET global1 == ObjectAssign(globalTaskPositions,
                                        PositionsOf(syncClosure.myEvents))
            IN  /\ lsPositions' = global1
                /\ lsTimestamp' = ToISOString(now)
       ELSE UNCHANGED storageVars
    /\ net' = LeavePage(net)
    /\ drags' = [ d \in 1..Len(drags) |-> [drags[d] EXCEPT !.pc = "gone"] ]
    /\ tasks' = <<>>
    /\ loading' = TRUE
    /\ error' = FALSE
    /\ lastCalendarUpdate' = FALSE
    /\ gets' = {activeTab}
    /\ myEvents' = <<>>
    /\ positionsChanged' = FALSE
    /\ syncClosure' = NoClosure
    /\ taskPositionsRef' = NoPositions
    /\ globalTaskPositions' = NoPositions
    /\ UNCHANGED <<now, store, faults, toasts, activeTab, notBrowserVars>>

\* a day passes
Tick ==
    /\ Spent < MaxEvents
    /\ now' = now + 1
    /\ UNCHANGED <<store, storageVars, netVars, listVars, calVars, notBrowserVars>>

(***************************************************************************)
(* TaskCalendar: moveEvent, resizeEvent and the answers                    *)
(***************************************************************************)
MaxPos == 2

\* the places an event can be dropped on: <<start, end>> in hours
Places == { <<s, e>> \in (1..MaxPos + 1) \X (1..MaxPos + 1) : s < e }

\* a call of moveEvent or resizeEvent: the event as dragged, the new dates,
\* the failed attempts so far, the requests sent so far, where the call
\* stands ("fetch": awaiting the answer, "backoff": awaiting the retry
\* timer, "done", or "gone" with its
\* page), and whether an earlier call for the same task was still pending
\* when it started
Pending(d) == d.pc \in { "fetch", "backoff" }

Call(kind, event, place) ==
    [ kind |-> kind, task |-> event.id, event |-> <<event.start, event.end>>,
      place |-> place, retries |-> 0, requests |-> 1, pc |-> "fetch",
      concurrent |-> \E i \in 1..Len(drags) :
                         drags[i].task = event.id /\ Pending(drags[i]) ]

\* moveEvent and resizeEvent of the calendar: the event is replaced at once,
\* positionsChanged is set, the global map is updated, one PATCH is sent
DragEvent(kind, i, place, allDay) ==
    LET event == myEvents[i]
        updatedEvent == [ event EXCEPT !.start = place[1], !.end = place[2],
                                       !.allDay = allDay ]
        call == Len(drags) + 1
        request == Request("drag", call, event.id,
                           PositionBody(place[1], place[2], allDay), "live")
    IN  /\ Mounted
        /\ Len(drags) < MaxDrags /\ Spent < MaxEvents
        /\ <<event.start, event.end>> # place
        /\ drags' = Append(drags, Call(kind, event, place))
        /\ toasts' = Append(toasts, NoToasts)
        /\ Commit(ReplaceEvent(myEvents, updatedEvent), TRUE, TRUE,
                  [globalTaskPositions EXCEPT ![event.id] = PosOf(place[1], place[2])],
                  net \cup {request})
        /\ UNCHANGED <<now, store, faults, listVars, notBrowserVars>>

MoveEvent ==
    \E i \in 1..Len(myEvents), place \in Places :
        /\ place[2] - place[1] = myEvents[i].end - myEvents[i].start
        /\ DragEvent("move", i, place, FALSE)

ResizeEvent ==
    \E i \in 1..Len(myEvents), place \in Places :
        /\ place[1] = myEvents[i].start \/ place[2] = myEvents[i].end
        /\ DragEvent("resize", i, place, FALSE)

\* the request meets the server
CalFaults == { "none", "db", "dropped" }

ServePatch ==
    \E r \in Sent(net), fault \in CalFaults :
        /\ fault = "none" \/ Spent < MaxEvents
        /\ Serve(r, fault)
        /\ UNCHANGED <<now, storageVars, drags, toasts, listVars, calVars,
                       notBrowserVars>>

\* the answer to the PATCH of moveEvent/resizeEvent arrives
DragAnswered ==
    \E r \in Answered(net) :
        /\ r.from = "drag" /\ r.then # "gone"
        /\ drags' = [drags EXCEPT ![r.n].pc = "done"]
        /\ IF ResponseOk(r)
           THEN /\ toasts' = ToastSuccess(toasts, r.n)
                /\ IF r.then = "live" THEN SetPositionsUnchanged(net \ {r})
                   ELSE net' = net \ {r} /\ UNCHANGED <<storageVars, calVars>>
           ELSE /\ toasts' = IF r.status = NetworkError THEN ToastError(toasts, r.n)
                             ELSE toasts
                /\ net' = net \ {r}
                /\ UNCHANGED <<storageVars, calVars>>
        /\ UNCHANGED <<now, store, faults, listVars, notBrowserVars>>

\* the last answer of a flush arrives: Promise.allSettled resolves and
\* positionsChanged is reset
SyncAnswered ==
    \E r \in Answered(net) :
        /\ r.from = "sync"
        /\ IF r.then = "live" THEN SetPositionsUnchanged(net \ {r})
           ELSE net' = net \ {r} /\ UNCHANGED <<storageVars, calVars>>
        /\ UNCHANGED <<now, store, faults, drags, toasts, listVars, notBrowserVars>>

(***************************************************************************)
(* SpecCal: TaskList with the calendar, the server behind them             *)
(***************************************************************************)
\* the tasks of the session user in the store when the page opens
StoredTask(s, e) ==
    [ userId |-> SessionUser, status |-> "todo",
      startDate |-> ToISOString(s), dueDate |-> ToISOString(e), isAllDay |-> FALSE ]

SessionStore == [ id \in TaskIds |-> IF id = "A" THEN StoredTask(1, 2)
                                     ELSE StoredTask(2, 3) ]

\* local storage as an earlier visit left it: nothing, or a position for
\* task A written the day before or the same day
EarlierVisits ==
    { [positions |-> NoItem, timestamp |-> NoItem] } \cup
    { [positions |-> [NoPositions EXCEPT !["A"] = PosOf(2, 3)],
       timestamp |-> ToISOString(day)] : day \in { Today - 1, Today } }

\* the page has just been opened on a tab: TaskList is mounted, its first
\* fetchTasks is in flight
InitPage ==
    /\ now = Today
    /\ \E visit \in EarlierVisits :
           lsPositions = visit.positions /\ lsTimestamp = visit.timestamp
    /\ net = {}
    /\ faults = 0
    /\ drags = <<>>
    /\ toasts = <<>>
    /\ tasks = <<>>
    /\ activeTab \in Tabs
    /\ loading = TRUE
    /\ error = FALSE
    /\ lastCalendarUpdate = FALSE
    /\ gets = {activeTab}
    /\ loads = 0
    /\ myEvents = <<>>
    /\ positionsChanged = FALSE
    /\ globalTaskPositions = NoPositions
    /\ taskPositionsRef = NoPositions
    /\ syncClosure = NoClosure

TabChanged == \E value \in Tabs : HandleTabChange(value)

FetchTasksAnswered == \E tab \in Tabs, dbOk \in BOOLEAN : FetchTasksDone(tab, dbOk)

NextCal ==
    \/ MoveEvent
    \/ ResizeEvent
    \/ ServePatch
    \/ DragAnswered
    \/ SyncAnswered
    \/ TabChanged
    \/ FetchTasksAnswered
    \/ Reload
    \/ Tick

(***************************************************************************)
(* The calendar whose moveEvent retries (the earlier TaskCalendar)         *)
(***************************************************************************)
maxRetries == 3

\* the calls and failed requests of a session of the retrying calendar; a
\* call weighs as much as two failed requests
RetrySpent == 2 * Len(drags) + faults
MaxRetryEvents == 5

\* a while loop that allows one more turn
LoopContinuesOnceMore(retries) == retries <= maxRetries

\* the condition of the while loop of moveEvent, after a failed attempt
LoopContinues(retries) == retries < maxRetries

\* the error toast of moveEvent shown on every failed attempt
RetriesExhaustedAlways(retries) == retries >= 1

\* the catch block of moveEvent, after retries++: the error toast is shown
\* once the attempts are used up
RetriesExhausted(retries) == retries >= maxRetries

\* setMyEvents of moveEvent/resizeEvent: the event is replaced and the whole
\* position map is written to local storage inside the updater
SetMyEventsAndStore(event) ==
    LET updatedEvents == ReplaceEvent(myEvents, event)
    IN  /\ myEvents' = updatedEvents
        /\ lsPositions' = PositionsOf(updatedEvents)
        /\ lsTimestamp' = ToISOString(now)

\* the first part of moveEvent and of resizeEvent, up to the first await
RetryDragEvent(kind, i, place, allDay) ==
    LET event == myEvents[i]
        updatedEvent == [ event EXCEPT !.start = place[1], !.end = place[2],
                                       !.allDay = allDay ]
        call == Len(drags) + 1
    IN  /\ Len(drags) < MaxDrags /\ RetrySpent < MaxRetryEvents
        /\ <<event.start, event.end>> # place
        /\ drags' = Append(drags, Call(kind, event, place))
        /\ toasts' = Append(toasts, NoToasts)
        /\ SetMyEventsAndStore(updatedEvent)
        /\ net' = net \cup { Request("drag", call, event.id,
                                     PositionBody(place[1], place[2], allDay), "live") }
        /\ UNCHANGED <<now, store, faults, listVars, positionsChanged,
                       globalTaskPositions, taskPositionsRef, syncClosure,
                       notBrowserVars>>

MoveEventRetrying ==
    \E i \in 1..Len(myEvents), place \in Places :
        /\ place[2] - place[1] = myEvents[i].end - myEvents[i].start
        /\ RetryDragEvent("move", i, place, FALSE)

ResizeEventReverting ==
    \E i \in 1..Len(myEvents), place \in Places :
        /\ place[1] = myEvents[i].start \/ place[2] = myEvents[i].end
        /\ RetryDragEvent("resize", i, place, myEvents[i].allDay)

\* the request meets the server; the failures are bounded
ServeRetried ==
    \E r \in Sent(net), fault \in Faults :
        /\ fault = "none" \/ RetrySpent < MaxRetryEvents
        /\ Serve(r, fault)
        /\ UNCHANGED <<now, storageVars, drags, toasts, listVars, calVars,
                       notBrowserVars>>

\* one turn of the while loop of moveEvent ends: the fetch has been answered
MoveAttemptAnswered ==
    \E r \in Answered(net) :
        LET call == drags[r.n]
            retries == call.retries + 1
        IN  /\ r.from = "drag" /\ call.kind = "move"
            /\ IF ResponseOk(r)
               THEN /\ drags' = [drags EXCEPT ![r.n].pc = "done"]
                    /\ toasts' = IF call.retries = 0 THEN ToastSuccess(toasts, r.n)
                                 ELSE toasts
                    /\ net' = net \ {r}
               ELSE /\ toasts' = IF RetriesExhausted(retries)
                                 THEN ToastError(toasts, r.n) ELSE toasts
                    /\ IF ~RetriesExhausted(retries)
                       THEN \* await the backoff timer
                            /\ drags' = [drags EXCEPT ![r.n].retries = retries,
                                                      ![r.n].pc = "backoff"]
                            /\ net' = net \ {r}
                       ELSE IF LoopContinues(retries)
                       THEN \* the loop goes on at once
                            /\ drags' = [drags EXCEPT ![r.n].retries = retries,
                                                      ![r.n].requests = @ + 1]
                            /\ net' = (net \ {r}) \cup
                                      { [r EXCEPT !.stage = "sent", !.status = 0] }
                       ELSE /\ drags' = [drags EXCEPT ![r.n].retries = retries,
                                                      ![r.n].pc = "done"]
                            /\ net' = net \ {r}
            /\ UNCHANGED <<now, store, faults, storageVars, listVars, calVars,
                           notBrowserVars>>

\* the backoff timer fires, the loop condition is tested and the next
\* attempt is sent
BackoffElapsed ==
    \E d \in 1..Len(drags) :
        LET call == drags[d]
        IN  /\ call.pc = "backoff"
            /\ IF LoopContinues(call.retries)
               THEN /\ drags' = [drags EXCEPT ![d].pc = "fetch",
                                              ![d].requests = @ + 1]
                    /\ net' = net \cup
                              { Request("drag", d, call.task,
                                        PositionBody(call.place[1], call.place[2], FALSE),
                                        "live") }
               ELSE /\ drags' = [drags EXCEPT ![d].pc = "done"]
                    /\ net' = net
            /\ UNCHANGED <<now, store, faults, storageVars, toasts, listVars,
                           calVars, notBrowserVars>>

\* the single attempt of resizeEvent has been answered: on failure the event
\* as it was dragged is put back
ResizeAttemptAnswered ==
    \E r \in Answered(net) :
        LET call == drags[r.n]
            event == [ id |-> call.task, start |-> call.event[1],
                       end |-> call.event[2], allDay |-> FALSE ]
        IN  /\ r.from = "drag" /\ call.kind = "resize"
            /\ drags' = [drags EXCEPT ![r.n].pc = "done"]
            /\ net' = net \ {r}
            /\ IF ResponseOk(r)
               THEN /\ toasts' = ToastSuccess(toasts, r.n)
                    /\ UNCHANGED <<myEvents, storageVars>>
               ELSE /\ toasts' = ToastError(toasts, r.n)
                    /\ SetMyEventsAndStore(event)
            /\ UNCHANGED <<now, store, faults, listVars, positionsChanged,
                           globalTaskPositions, taskPositionsRef, syncClosure,
                           notBrowserVars>>

NextRetry ==
    \/ MoveEventRetrying
    \/ ResizeEventReverting
    \/ ServeRetried
    \/ MoveAttemptAnswered
    \/ BackoffElapsed
    \/ ResizeAttemptAnswered

(***************************************************************************)
(* The retrying calendar while tasks are deleted behind it                 *)
(***************************************************************************)
\* DELETE /api/tasks?id=... of the same user from another page: the task
\* leaves the store, the calendar goes on showing its event
TaskDeletedElsewhere ==
    \E id \in TaskIds :
        /\ store[id] # NoTask
        /\ RetrySpent < MaxRetryEvents
        /\ store' = DELETE(store, SessionUser, id, TRUE).store
        /\ faults' = faults + 1
        /\ UNCHANGED <<restVars, slotVars, chatVars, apiLast, now, storageVars, net, drags, toasts,
                       listVars, calVars, boardVars>>

NextRetryGone ==
    \/ TaskDeletedElsewhere
    \/ MoveEventRetrying
    \/ ResizeEventReverting
    \/ ServeRetried
    \/ MoveAttemptAnswered
    \/ BackoffElapsed
    \/ ResizeAttemptAnswered

(***************************************************************************)
(* The session filter of TaskList, and the kanban board                    *)
(***************************************************************************)
Sessions == { "s1", "s2" }

\* the chat session a task was created in
SessionOf(id) == IF id = "A" THEN "s1" ELSE "s2"

\* GET /api/tasks?sessionId=...: query.sessionId narrows the find
GETSession(st, user, session, dbOk) ==
    LET all == GET(st, user, dbOk)
    IN  [ all EXCEPT !.tasks =
              SelectSeq(@, LAMBDA t : session = "" \/ SessionOf(t.id) = session) ]

\* the two boards of the repository: the one that sends the status alone and
\* the one that keeps localTasks and infers the dates of a completed task
BoardVersions == { "KanbanBoard.tsx", "part_014" }

\* What the user and the world around the board do is bounded in total (the
\* tab and session changes, the drops, the failures), and so are the drops.
MaxDrops == 1
MaxBoardEvents == 4

BoardSpent == loads + Len(drops) + faults

\* the board is rendered by TaskList under the kanban tab, once the tasks are
\* loaded
BoardShown == ~loading /\ ~error /\ activeTab = "kanban"

\* the status a task is shown with on the board; "" when it is not shown
ShownTasks == IF board = "part_014" THEN localTasks ELSE tasks

DisplayedStatus(id) ==
    IF BoardShown /\ \E i \in 1..Len(ShownTasks) : ShownTasks[i].id = id
    THEN ShownTasks[CHOOSE i \in 1..Len(ShownTasks) : ShownTasks[i].id = id].status
    ELSE ""

\* the tabs leave the screen: the cleanup of a mounted calendar, the state of
\* a mounted board is dropped
TakeOffScreen ==
    /\ localTasks' = <<>>
    /\ IF Mounted THEN CalendarCleanup(net)
       ELSE net' = Detach(net) /\ UNCHANGED calVars

\* fetchTasks() of a render that closed over (activeTab, sessionId)
FetchClosure(tab, session) == [tab |-> tab, session |-> session]

BoardFetchCalled(closures) ==
    /\ loading' = TRUE
    /\ gets' = gets \cup closures
    /\ TakeOffScreen

\* "Save current task positions": the map the session effect makes of the
\* tasks that carry both dates
PositionsOfTasks(taskList) ==
    [ id \in TaskIds |->
        IF \E i \in 1..Len(taskList) :
               /\ taskList[i].id = id
               /\ Truthy(taskList[i].startDate) /\ Truthy(taskList[i].dueDate)
        THEN LET task == taskList[CHOOSE i \in 1..Len(taskList) : taskList[i].id = id]
             IN  [start |-> task.startDate, end |-> task.dueDate]
        ELSE NoPos ]

\* A session is selected in the sidebar: the URL gets ?session=..., TaskList
\* renders with the new sessionId; the session effect saves the positions of
\* the tasks it holds when the calendar tab is active, and the fetch effect
\* calls the new fetchTasks.
SessionSelected ==
    \E session \in Sessions :
        /\ session # sessionId
        /\ BoardSpent < MaxBoardEvents
        /\ loads' = loads + 1
        /\ sessionId' = session
        /\ IF activeTab = "calendar" /\ Len(tasks) > 0
           THEN /\ lsPositions' = PositionsOfTasks(tasks)
                /\ lsTimestamp' = ToISOString(now)
           ELSE UNCHANGED storageVars
        /\ BoardFetchCalled({FetchClosure(activeTab, session)})
        /\ UNCHANGED <<restVars, slotVars, chatVars, apiVars, now, faults, drags, toasts,
                       tasks, activeTab,
                       error, lastCalendarUpdate, board, drops>>

\* handleTabChange(value) of a TaskList that has a session
BoardTabChanged ==
    \E value \in Tabs :
        /\ ~loading /\ ~error
        /\ value # activeTab
        /\ BoardSpent < MaxBoardEvents
        /\ loads' = loads + 1
        /\ activeTab' = value
        /\ IF activeTab = "calendar" /\ value # "calendar"
           THEN /\ lastCalendarUpdate' = TRUE
                /\ BoardFetchCalled({FetchClosure(value, sessionId)})
           ELSE IF value = "calendar" /\ lastCalendarUpdate
           THEN /\ UNCHANGED lastCalendarUpdate
                /\ BoardFetchCalled({FetchClosure(value, sessionId)})
           ELSE /\ UNCHANGED lastCalendarUpdate
                /\ BoardFetchCalled({FetchClosure(activeTab, sessionId),
                                     FetchClosure(value, sessionId)})
        /\ UNCHANGED <<restVars, slotVars, chatVars, apiVars, now, storageVars, faults, drags,
                       toasts, tasks,
                       error, sessionId, board, drops>>

\* the answer to a fetchTasks: the tasks of its session are set, and the tab
\* that is active comes (back) on the screen with them
BoardFetchAnswered ==
    \E closure \in gets, dbOk \in BOOLEAN :
        /\ dbOk \/ BoardSpent < MaxBoardEvents
        /\ gets' = gets \ {closure}
        /\ loading' = FALSE
        /\ LET response == GETSession(store, SessionUser, closure.session, dbOk)
           IN  IF response.status = 200
               THEN /\ tasks' = TasksToSet(closure.tab, response.tasks, lsPositions)
                    /\ error' = FALSE
                    /\ faults' = faults
                    /\ IF activeTab = "calendar"
                       THEN /\ IF Mounted THEN TasksChanged(tasks')
                               ELSE MountCalendar(tasks')
                            /\ UNCHANGED localTasks
                       ELSE /\ localTasks' = IF board = "part_014" THEN tasks' ELSE <<>>
                            /\ UNCHANGED <<calVars, storageVars, net>>
               ELSE /\ tasks' = <<>>
                    /\ error' = TRUE
                    /\ faults' = faults + 1
                    /\ TakeOffScreen
                    /\ UNCHANGED storageVars
        /\ UNCHANGED <<restVars, slotVars, chatVars, apiVars, now, drags, toasts, activeTab,
                       lastCalendarUpdate, loads, sessionId, board, drops>>

\* window.__taskCalendarPositions: declared by the board, assigned nowhere
WindowTaskCalendarPositions == NoItem

StatusBody(status) ==
    [ status |-> status, startDate |-> Absent, dueDate |-> Absent,
      isAllDay |-> "absent" ]

\* new Date() of the board, in hours
HourNow == StartOfDay(now)

\* updateData of the board that infers dates: for the done column the
\* position in the window variable, else the one in local storage, else the
\* hour that just passed
UpdateData(id, destination, window, positions) ==
    IF destination # "done" THEN StatusBody(destination)
    ELSE IF window # NoItem /\ window[id] # NoPos
    THEN [ StatusBody(destination) EXCEPT !.startDate = window[id].start,
                                          !.dueDate = window[id].end ]
    ELSE IF positions # NoItem /\ positions[id] # NoPos
    THEN [ StatusBody(destination) EXCEPT !.startDate = positions[id].start,
                                          !.dueDate = positions[id].end ]
    ELSE [ StatusBody(destination) EXCEPT !.startDate = ToISOString(HourNow - 1),
                                          !.dueDate = ToISOString(HourNow) ]

\* a call of onDragEnd: the task, its column and the column it was dropped
\* on, the body sent, the tasks and the fetchTasks (onUpdate) of the props
\* it closed over, where the call stands ("fetch": awaiting the answer, "timer": awaiting the
\* setTimeout before onUpdate, "done"), the answer and the toasts
Drop(task, destination, body) ==
    [ task |-> task.id, from |-> task.status, to |-> destination, body |-> body,
      tasks |-> tasks, onUpdate |-> FetchClosure(activeTab, sessionId), pc |-> "fetch",
      ok |-> FALSE, success |-> 0, error |-> 0 ]

\* onDragEnd with a destination in another column.  The board with
\* localTasks sets the new status in them, and its effect on [tasks,
\* isDragging] puts the tasks of the props back as isDragging turns false.
OnDragEnd ==
    \E i \in 1..Len(ShownTasks), destination \in Statuses :
        LET task == ShownTasks[i]
            body == IF board = "part_014"
                    THEN UpdateData(task.id, destination, WindowTaskCalendarPositions,
                                    lsPositions)
                    ELSE StatusBody(destination)
            call == Len(drops) + 1
        IN  /\ BoardShown
            /\ destination # task.status
            /\ Len(drops) < MaxDrops /\ BoardSpent < MaxBoardEvents
            /\ drops' = Append(drops, Drop(task, destination, body))
            /\ net' = net \cup { Request("drop", call, task.id, body, "live") }
            /\ localTasks' = IF board = "part_014" THEN tasks ELSE localTasks
            /\ UNCHANGED <<restVars, slotVars, chatVars, apiVars, now, storageVars, faults,
                           drags, toasts,
                           listVars, calVars, sessionId, board>>

BoardFaults == { "none", "db" }

ServeDrop ==
    \E r \in Sent(net), fault \in BoardFaults :
        /\ fault = "none" \/ BoardSpent < MaxBoardEvents
        /\ Serve(r, fault)
        /\ UNCHANGED <<restVars, slotVars, chatVars, apiLast, now, storageVars, drags, toasts,
                       listVars,
                       calVars, boardVars>>

\* The answer to the PATCH of the board that sends the status alone: onUpdate()
\* when it is ok, console.error when it is not.
DropAnsweredStatusOnly ==
    \E r \in Answered(net) :
        /\ r.from = "drop" /\ board = "KanbanBoard.tsx"
        /\ drops' = [drops EXCEPT ![r.n].pc = "done", ![r.n].ok = ResponseOk(r)]
        /\ IF ResponseOk(r)
           THEN /\ loading' = TRUE
                /\ gets' = gets \cup {drops[r.n].onUpdate}
                /\ localTasks' = <<>>
                /\ IF Mounted THEN CalendarCleanup(net \ {r})
                   ELSE net' = Detach(net \ {r}) /\ UNCHANGED calVars
           ELSE /\ net' = net \ {r}
                /\ UNCHANGED <<loading, gets, localTasks, calVars>>
        /\ UNCHANGED <<restVars, slotVars, chatVars, apiVars, now, storageVars, faults, drags,
                       toasts, tasks,
                       activeTab, error, lastCalendarUpdate, loads, sessionId, board>>

\* The answer to the PATCH of the board that infers dates: toast.success and
\* a timer for onUpdate when it is ok; toast.error and setLocalTasks(tasks)
\* when it is not.
DropAnswered ==
    \E r \in Answered(net) :
        /\ r.from = "drop" /\ board = "part_014"
        /\ net' = net \ {r}
        /\ IF ResponseOk(r)
           THEN /\ drops' = [drops EXCEPT ![r.n].pc = "timer", ![r.n].ok = TRUE,
                                          ![r.n].success = @ + 1]
                /\ UNCHANGED localTasks
           ELSE /\ drops' = [drops EXCEPT ![r.n].pc = "done", ![r.n].error = @ + 1]
                /\ localTasks' = IF r.then = "live" THEN drops[r.n].tasks
                                 ELSE localTasks
        /\ UNCHANGED <<restVars, slotVars, chatVars, apiVars, now, storageVars, faults, drags,
                       toasts,
                       listVars, calVars, sessionId, board>>

\* setTimeout(() => onUpdate(), 300) fires
OnUpdateTimer ==
    \E n \in 1..Len(drops) :
        /\ drops[n].pc = "timer"
        /\ drops' = [drops EXCEPT ![n].pc = "done"]
        /\ BoardFetchCalled({drops[n].onUpdate})
        /\ UNCHANGED <<restVars, slotVars, chatVars, apiVars, now, storageVars, faults, drags,
                       toasts, tasks,
                       activeTab, error, lastCalendarUpdate, loads, sessionId, board>>

NextBoard ==
    \/ SessionSelected
    \/ BoardTabChanged
    \/ BoardFetchAnswered
    \/ OnDragEnd
    \/ ServeDrop
    \/ DropAnsweredStatusOnly
    \/ DropAnswered
    \/ OnUpdateTimer

(***************************************************************************)
(* The chat with the assistant: task suggestions, submit, upload, add      *)
(***************************************************************************)
\* the three chat components of the repository
ChatVersions == { "part_000", "part_012", "part_013" }

\* String.prototype.trim: "" is the empty string, " " a blank one
Trim(str) == IF str = " " THEN "" ELSE str

\* The tasks the assistant suggests: a complete one, and ones with the title
\* missing, the title blank, the description blank, dates that do not parse.
CompleteTask ==
    [ title |-> "t", description |-> "d", startDate |-> Absent, dueDate |-> Absent ]

SuggestedTasks ==
    { CompleteTask,
      [CompleteTask EXCEPT !.title = ""],
      [CompleteTask EXCEPT !.title = " "],
      [CompleteTask EXCEPT !.description = " "],
      [CompleteTask EXCEPT !.startDate = Invalid, !.dueDate = Invalid] }

NoSuggestion ==
    [ title |-> "", description |-> "", startDate |-> Absent, dueDate |-> Absent ]

\* the tasks of a json block: none or one
TaskLists == { <<>> } \cup { <<t>> : t \in SuggestedTasks }

\* What the assistant answers: text without a ```json block, a block that
\* JSON.parse rejects, a block that parses to null or to an object, a block
\* that parses to an array of tasks.
Text(block) == [block |-> block, tasks |-> <<>>]

Replies ==
    { Text("none"), Text("unparsable"), Text("null"), Text("object") }
    \cup { [block |-> "array", tasks |-> ts] : ts \in TaskLists }

\* extractTaskSuggestions of the chat component
extractTaskSuggestions(content) ==
    IF content.block = "none" THEN <<>>
    ELSE IF content.block = "unparsable" THEN <<>>
    ELSE IF content.block = "array" THEN content.tasks
    ELSE <<>>

\* extractTasksAndFormatResponse of the upload route: no match, or a throw
\* of JSON.parse or of tasks.reduce (null and objects have no reduce) that
\* the catch turns into no tasks
extractTasksAndFormatResponse(content) ==
    IF content.block = "none" THEN <<>>
    ELSE IF content.block \in { "unparsable", "null", "object" } THEN <<>>
    ELSE content.tasks

\* the upload route after generateContent: 400 when no task was extracted
UploadStatus(extracted, dbOk) ==
    IF Len(extracted) = 0 THEN 400
    ELSE IF ~dbOk THEN 500
    ELSE 200

\* validateTaskSuggestion, and the filter of processSuggestedTasks: the
\* fields are truthy
validateTaskSuggestion(task) == task.title # "" /\ task.description # ""

ValidTasks(ts) == SelectSeq(ts, validateTaskSuggestion)

\* the messages of the conversation
UserMessage == [role |-> "user", content |-> Text("prompt")]
AssistantMessage(content) == [role |-> "assistant", content |-> content]
ErrorMessage == AssistantMessage(Text("error"))

\* a call of handleSubmit, handleFileUpload or of the add handler: the task
\* (add), the messages closed over (submit), whether a chunk has arrived,
\* the reply, what was extracted from it, the status of the upload, the
\* fetches sent for the task, the toasts, and where the call stands
ChatCall(kind, pc, task, newMessages, fetches) ==
    [ kind |-> kind, pc |-> pc, task |-> task, newMessages |-> newMessages,
      received |-> FALSE, reply |-> Text("none"), extracted |-> <<>>, status |-> 0,
      failed |-> FALSE, fetches |-> fetches, error |-> 0, warning |-> 0, success |-> 0 ]

MaxChatCalls == 2

\* handleSubmit up to the first await: the prompt joins the messages
HandleSubmit ==
    /\ ~isLoading
    /\ Len(chatCalls) < MaxChatCalls
    /\ messages' = Append(messages, UserMessage)
    /\ isLoading' = TRUE
    /\ chatCalls' = Append(chatCalls,
                           ChatCall("submit", "stream", NoSuggestion, messages', <<>>))
    /\ UNCHANGED <<restVars, slotVars, apiVars, browserVars, boardVars, chat, taskSuggestions>>

\* a chunk of the answer arrives
ChunkArrives ==
    \E n \in 1..Len(chatCalls) :
        /\ chatCalls[n].pc = "stream" /\ ~chatCalls[n].received
        /\ chatCalls' = [chatCalls EXCEPT ![n].received = TRUE]
        /\ UNCHANGED <<restVars, slotVars, apiVars, browserVars, boardVars, chat, messages,
                       isLoading, taskSuggestions>>

\* the messages after the catch of handleSubmit: as they are, or with the
\* message that reports the error
NoMessagesKept(version, prev) == <<>>
MessagesAfterCatch(version, prev) ==
    IF version = "part_013" THEN Append(prev, ErrorMessage) ELSE prev

\* The call of the language model fails: streamChat throws, the fetch of the
\* schedule assistant rejects or is not ok, or the stream breaks.  The
\* component that reads the stream itself keeps what it has received, with a
\* warning; otherwise the catch reports the error.  finally clears isLoading.
ModelFails ==
    \E n \in 1..Len(chatCalls) :
        /\ chatCalls[n].pc = "stream"
        /\ isLoading' = FALSE
        /\ IF chat = "part_013" /\ chatCalls[n].received
           THEN /\ chatCalls' = [chatCalls EXCEPT ![n].pc = "done", ![n].failed = TRUE,
                                                  ![n].warning = @ + 1]
                /\ messages' = Append(messages, AssistantMessage(Text("none")))
           ELSE /\ chatCalls' = [chatCalls EXCEPT ![n].pc = "done", ![n].failed = TRUE,
                                                  ![n].error = @ + 1]
                /\ messages' = MessagesAfterCatch(chat, messages)
        /\ UNCHANGED <<restVars, slotVars, apiVars, browserVars, boardVars, chat, taskSuggestions>>

\* The answer is complete.  The components that call streamChat set the
\* messages they closed over plus the answer, save the session (a failure
\* throws), then extract, validate and add the suggestions; the one that
\* reads the stream itself replaces the suggestions when a chunk held an
\* array, and appends the answer.
ModelAnswers ==
    \E n \in 1..Len(chatCalls), reply \in Replies, saved \in BOOLEAN :
        LET call == chatCalls[n]
            extracted == extractTaskSuggestions(reply)
        IN  /\ call.pc = "stream"
            /\ isLoading' = FALSE
            /\ IF chat = "part_013"
               THEN /\ messages' = Append(messages, AssistantMessage(reply))
                    /\ taskSuggestions' = IF reply.block = "array"
                                          THEN ValidTasks(extracted)
                                          ELSE taskSuggestions
                    /\ chatCalls' = [chatCalls EXCEPT ![n].pc = "done", ![n].reply = reply,
                                                      ![n].received = TRUE,
                                                      ![n].extracted = extracted,
                                                      ![n].status = 200]
               ELSE /\ messages' = Append(call.newMessages, AssistantMessage(reply))
                    /\ taskSuggestions' = IF saved
                                          THEN taskSuggestions \o ValidTasks(extracted)
                                          ELSE taskSuggestions
                    /\ chatCalls' =
                           [chatCalls EXCEPT ![n].pc = "done", ![n].reply = reply,
                                             ![n].received = TRUE,
                                             ![n].extracted = IF saved THEN extracted ELSE <<>>,
                                             ![n].status = IF saved THEN 200 ELSE 500,
                                             ![n].error = IF saved THEN @ ELSE @ + 1]
            /\ UNCHANGED <<restVars, slotVars, apiVars, browserVars, boardVars, chat>>

\* handleFileUpload up to the await of uploadAndProcessFile
HandleFileUpload ==
    /\ chat \in { "part_000", "part_012" }
    /\ ~isLoading
    /\ Len(chatCalls) < MaxChatCalls
    /\ isLoading' = TRUE
    /\ chatCalls' = Append(chatCalls,
                           ChatCall("upload", "upload", NoSuggestion, messages,
                                    <<"POST /api/upload">>))
    /\ UNCHANGED <<restVars, slotVars, apiVars, browserVars, boardVars, chat, messages,
                   taskSuggestions>>

\* The upload route answers and handleFileUpload goes on: a response that is
\* not ok throws in uploadAndProcessFile and the catch shows an error; an ok
\* one adds the two messages and the tasks, unvalidated, to the suggestions.
UploadAnswered ==
    \E n \in 1..Len(chatCalls), reply \in Replies, dbOk \in BOOLEAN :
        LET extracted == extractTasksAndFormatResponse(reply)
            status == UploadStatus(extracted, dbOk)
        IN  /\ chatCalls[n].pc = "upload"
            /\ isLoading' = FALSE
            /\ chatCalls' = [chatCalls EXCEPT ![n].pc = "done", ![n].reply = reply,
                                              ![n].extracted = extracted,
                                              ![n].status = status,
                                              ![n].error = IF status = 200 THEN @ ELSE @ + 1,
                                              ![n].success = IF status = 200 THEN @ + 1 ELSE @]
            /\ IF status = 200
               THEN /\ messages' = messages \o <<UserMessage, AssistantMessage(reply)>>
                    /\ taskSuggestions' = taskSuggestions \o extracted
               ELSE UNCHANGED <<messages, taskSuggestions>>
            /\ UNCHANGED <<restVars, slotVars, apiVars, browserVars, boardVars, chat>>

\* The add button of a suggestion, up to the first await.  addToTasks asks
\* for the AI response of the task; addTask posts the task; addToSchedule
\* has handleCreateTask post it.
AddSuggestion ==
    \E i \in 1..Len(taskSuggestions) :
        /\ Len(chatCalls) < MaxChatCalls
        /\ chatCalls' = Append(chatCalls,
               IF chat = "part_000"
               THEN ChatCall("add", "check", taskSuggestions[i], <<>>,
                             <<"GET /api/airesponses">>)
               ELSE ChatCall("add", "post", taskSuggestions[i], <<>>,
                             <<"POST /api/tasks">>))
        /\ UNCHANGED <<restVars, slotVars, apiVars, browserVars, boardVars, chat, messages,
                       isLoading, taskSuggestions>>

\* "Validate required fields" of addToTasks
FieldsMissing(task) == Trim(task.title) = "" \/ Trim(task.description) = ""

\* filter(t => t.title !== task.title ...) of the suggestions
WithoutTask(ts, task) == SelectSeq(ts, LAMBDA t : t # task)

\* addToTasks after the AI response is there: the fields are validated, then
\* the task is posted
ValidateAndPost(n) ==
    IF FieldsMissing(chatCalls[n].task)
    THEN chatCalls' = [chatCalls EXCEPT ![n].pc = "done", ![n].error = @ + 1]
    ELSE chatCalls' = [chatCalls EXCEPT ![n].pc = "post",
                                        ![n].fetches = Append(@, "POST /api/tasks")]

\* an answer to a fetch of an add handler arrives and the handler goes on
AddAnswered ==
    \E n \in 1..Len(chatCalls), ok \in BOOLEAN :
        LET call == chatCalls[n]
            dated == Truthy(call.task.startDate) /\ Truthy(call.task.dueDate)
        IN  /\ call.kind = "add" /\ call.pc # "done"
            /\ IF call.pc = "check"
               THEN /\ IF ok THEN ValidateAndPost(n)
                       ELSE chatCalls' =
                                [chatCalls EXCEPT ![n].pc = "create",
                                     ![n].fetches = Append(@, "POST /api/airesponses")]
                    /\ UNCHANGED taskSuggestions
               ELSE IF call.pc = "create"
               THEN /\ IF ok THEN ValidateAndPost(n)
                       ELSE chatCalls' = [chatCalls EXCEPT ![n].pc = "done",
                                                           ![n].error = @ + 1]
                    /\ UNCHANGED taskSuggestions
               ELSE IF call.pc = "post" /\ ~ok
               THEN /\ chatCalls' =
                        [chatCalls EXCEPT ![n].pc = "done",
                                          ![n].error = IF chat = "part_013" THEN @ + 2
                                                       ELSE @ + 1]
                    /\ UNCHANGED taskSuggestions
               ELSE IF call.pc = "post" /\ chat = "part_013" /\ dated
               THEN /\ chatCalls' = [chatCalls EXCEPT ![n].pc = "patch",
                                                      ![n].success = @ + 1,
                                                      ![n].fetches = Append(@, "PATCH /api/tasks")]
                    /\ UNCHANGED taskSuggestions
               ELSE IF call.pc = "post" /\ chat = "part_012"
               THEN /\ chatCalls' = [chatCalls EXCEPT ![n].pc = "save",
                                         ![n].fetches = Append(@, "POST /api/chat-sessions")]
                    /\ taskSuggestions' = WithoutTask(taskSuggestions, call.task)
               ELSE IF call.pc = "patch" /\ ~ok
               THEN /\ chatCalls' = [chatCalls EXCEPT ![n].pc = "done", ![n].error = @ + 1]
                    /\ UNCHANGED taskSuggestions
               ELSE /\ chatCalls' = [chatCalls EXCEPT ![n].pc = "done",
                                                      ![n].success = @ + 1]
                    /\ taskSuggestions' = WithoutTask(taskSuggestions, call.task)
            /\ UNCHANGED <<restVars, slotVars, apiVars, browserVars, boardVars, chat, messages,
                           isLoading>>

NextChat ==
    \/ HandleSubmit
    \/ ChunkArrives
    \/ ModelFails
    \/ ModelAnswers
    \/ HandleFileUpload
    \/ UploadAnswered
    \/ AddSuggestion
    \/ AddAnswered

(***************************************************************************)
(* The refreshTasks events of the window and handleRefresh of TaskList     *)
(***************************************************************************)
\* detail.action of an event: 'update' (updateTaskInDatabase of the earlier
\* calendars), or none (addTask of the chat)
RefreshActions == { "update", "none" }

MaxSignals == 2

\* "Skip calendar updates"
NeverSkipped(action, tab) == FALSE
SkipsRefresh(action, tab) == action = "update" /\ tab = "calendar"

\* window.dispatchEvent(new CustomEvent('refreshTasks', ...)): the listener
\* of TaskList runs at once, with the activeTab of the last render
RefreshTasksDispatched ==
    \E action \in RefreshActions :
        /\ Len(signals) < MaxSignals /\ Spent < MaxEvents
        /\ signals' = Append(signals, [action |-> action, tab |-> activeTab])
        /\ IF SkipsRefresh(action, activeTab)
           THEN UNCHANGED <<loading, gets, calVars, storageVars, net>>
           ELSE FetchTasksCalled({activeTab})
        /\ UNCHANGED <<now, store, faults, drags, toasts, tasks, activeTab, error,
                       lastCalendarUpdate, loads, slotVars, apiLast, boardVars, chatVars,
                       dbVars, uploadVars, streamVars>>

NextRefresh ==
    \/ MoveEvent
    \/ ResizeEvent
    \/ ServePatch
    \/ DragAnswered
    \/ SyncAnswered
    \/ TabChanged
    \/ FetchTasksAnswered
    \/ RefreshTasksDispatched

(***************************************************************************)
(* Loading tasks whose dates may be missing or may not parse               *)
(***************************************************************************)
\* a date field of a stored task or of a cached position
LoadDates == { Absent, Invalid, DateOf(1), DateOf(2) }

\* the tasks of the session user, with any dates
LoadedTask(s, e) ==
    [ userId |-> SessionUser, status |-> "todo",
      startDate |-> s, dueDate |-> e, isAllDay |-> FALSE ]

LoadStores ==
    { [ id \in TaskIds |-> IF id = "A" THEN LoadedTask(d[1], d[2])
                           ELSE LoadedTask(d[3], d[4]) ] :
        d \in LoadDates \X LoadDates \X LoadDates \X LoadDates }

\* local storage: nothing, or a position for task A written the same day;
\* the session effect of TaskList writes the date fields of a task as they
\* are when both are truthy
LoadCaches ==
    { [positions |-> NoItem, timestamp |-> NoItem] } \cup
    { [positions |-> [NoPositions EXCEPT !["A"] = [start |-> s, end |-> e]],
       timestamp |-> ToISOString(Today)] : s, e \in LoadDates \ { Absent } }

NextLoad == TabChanged \/ FetchTasksAnswered

(***************************************************************************)
(* The tasks API called by two users over tasks of both                    *)
(***************************************************************************)
\* the second PATCH handler of the route file: no currentUser(), and
\* findOneAndUpdate({ id }, { status: body.status })
PATCHStatusOnly(st, id, body, dbOk) ==
    IF ~dbOk THEN [status |-> 500, store |-> st]
    ELSE IF st[id] = NoTask THEN [status |-> 404, store |-> st]
    ELSE [ status |-> 200,
           store |-> [st EXCEPT ![id].status = IF body.status # "" THEN body.status
                                               ELSE @] ]

\* the stores the calls start from: each id is free or holds a task of a user
OwnedTask(user) ==
    [ userId |-> user, status |-> "todo",
      startDate |-> Absent, dueDate |-> Absent, isAllDay |-> FALSE ]

OwnerStores == [ TaskIds -> { NoTask } \cup { OwnedTask(user) : user \in Users } ]

\* the bodies: a status, a userId other than the caller's, dates
OwnerDates == { Absent, DateOf(1) }

OwnerPatchBodies ==
    [ status : { "", "done" }, startDate : OwnerDates, dueDate : { Absent },
      isAllDay : { "absent" } ]

OwnerPostTasks ==
    [ id : TaskIds \cup {""}, userId : Users \cup {""}, status : {""},
      startDate : OwnerDates, dueDate : { Absent }, complete : {TRUE} ]

OwnerPutBodies ==
    [ userId : Users \cup {""}, status : { "", "done" }, startDate : OwnerDates,
      dueDate : { Absent } ]

\* a call by a signed-in user: the answer, with the caller and the ids of
\* the tasks returned
Answer(op, user, r) ==
    /\ store' = r.store
    /\ apiLast' = [ op |-> op, status |-> r.status, error |-> "", user |-> user,
                    returned |-> IF "tasks" \in DOMAIN r
                                 THEN { r.tasks[i].id : i \in 1..Len(r.tasks) }
                                 ELSE {} ]
    /\ UNCHANGED notApiVars

CallList ==
    \E user \in Users :
        LET found == GET(store, user, TRUE)
        IN  Answer("GET", user,
                   [status |-> found.status, store |-> store, tasks |-> found.tasks])

CallCreate ==
    \E user \in Users, task \in OwnerPostTasks :
      \E newId \in (IF task.id # "" THEN {task.id}
                    ELSE { i \in TaskIds : store[i] = NoTask }) :
        Answer("POST", user, POST(store, user, task, newId, TRUE))

CallPut ==
    \E user \in Users, id \in TaskIds, body \in OwnerPutBodies :
        Answer("PUT", user, PUT(store, user, id, body, TRUE))

CallPatch ==
    \E user \in Users, id \in TaskIds, body \in OwnerPatchBodies :
        Answer("PATCH", user, PATCH(store, user, id, body, TRUE))

CallPatchStatusOnly ==
    \E user \in Users, id \in TaskIds, body \in OwnerPatchBodies :
        Answer("PATCH", user, PATCHStatusOnly(store, id, body, TRUE))

CallDelete ==
    \E user \in Users, id \in TaskIds :
        Answer("DELETE", user, DELETE(store, user, id, TRUE))

NextOwner ==
    \/ CallList
    \/ CallCreate
    \/ CallPut
    \/ CallPatch
    \/ CallPatchStatusOnly
    \/ CallDelete

(***************************************************************************)
(* connectToDatabase                                                       *)
(*                                                                         *)
(* A step is one task of the event loop with the promise reactions it      *)
(* queues: the part of a call up to its await, or the settling of a        *)
(* connect with the continuations of every caller that awaits it.          *)
(***************************************************************************)
MaxCallers == 4
MaxDbEvents == 9

DbSpent == Len(callers) + Len(connects) + listeners

NoPromise == 0

\* if (!cached.promise): a connect is started when no promise is cached
StartsConnect(cachedPromise) == cachedPromise = NoPromise

\* a call of connectToDatabase up to its await, or to its return when a
\* connection is cached
CallConnectToDatabase ==
    /\ Len(callers) < MaxCallers /\ DbSpent < MaxDbEvents
    /\ IF conn
       THEN /\ callers' = Append(callers, [pc |-> "returned", awaits |-> NoPromise])
            /\ UNCHANGED <<promise, connects>>
       ELSE IF StartsConnect(promise)
       THEN /\ connects' = Append(connects, "pending")
            /\ promise' = Len(connects')
            /\ callers' = Append(callers, [pc |-> "await", awaits |-> promise'])
       ELSE /\ callers' = Append(callers, [pc |-> "await", awaits |-> promise])
            /\ UNCHANGED <<promise, connects>>
    /\ UNCHANGED <<conn, listeners, signalVars, uploadVars, streamVars, slotVars, apiVars,
                   browserVars, boardVars, chatVars>>

\* the callers that await a connect
Awaiting(k) == { c \in 1..Len(callers) : callers[c].pc = "await" /\ callers[c].awaits = k }

Continue(k, pc) ==
    [ c \in 1..Len(callers) |-> IF c \in Awaiting(k) THEN [callers[c] EXCEPT !.pc = pc]
                                ELSE callers[c] ]

\* mongoose.connect resolves: .then registers the 'error' listener, and
\* every caller awaiting the promise sets cached.conn and returns it
ConnectResolves ==
    \E k \in 1..Len(connects) :
        /\ connects[k] = "pending"
        /\ connects' = [connects EXCEPT ![k] = "ok"]
        /\ listeners' = listeners + 1
        /\ conn' = IF Awaiting(k) # {} THEN TRUE ELSE conn
        /\ callers' = Continue(k, "returned")
        /\ UNCHANGED <<promise, signalVars, uploadVars, streamVars, slotVars, apiVars,
                       browserVars, boardVars, chatVars>>

\* the cache after a connect was rejected: .catch sets cached.promise to
\* null, and the catch of every awaiting caller sets both to null
CacheAfterReject(cache, awaited) ==
    [ conn |-> IF awaited THEN FALSE ELSE cache.conn, promise |-> NoPromise ]

\* mongoose.connect rejects
ConnectRejects ==
    \E k \in 1..Len(connects) :
        /\ connects[k] = "pending"
        /\ connects' = [connects EXCEPT ![k] = "failed"]
        /\ LET after == CacheAfterReject([conn |-> conn, promise |-> promise],
                                          Awaiting(k) # {})
           IN  conn' = after.conn /\ promise' = after.promise
        /\ callers' = Continue(k, "thrown")
        /\ UNCHANGED <<listeners, signalVars, uploadVars, streamVars, slotVars, apiVars,
                       browserVars, boardVars, chatVars>>

\* mongoose.connection emits 'error': the listener clears the cache
ConnectionError ==
    /\ listeners > 0
    /\ conn \/ promise # NoPromise
    /\ conn' = FALSE
    /\ promise' = NoPromise
    /\ UNCHANGED <<connects, callers, listeners, signalVars, uploadVars, streamVars,
                   slotVars, apiVars, browserVars, boardVars, chatVars>>

NextDb ==
    \/ CallConnectToDatabase
    \/ ConnectResolves
    \/ ConnectRejects
    \/ ConnectionError

(***************************************************************************)
(* The upload route: polling for the processing of the uploaded file       *)
(***************************************************************************)
MaxUploads == 2

maxAttempts == 10

FileStates == { "STATE_UNSPECIFIED", "PROCESSING", "ACTIVE", "FAILED" }

TimedOut == "File processing failed or timed out"

\* the condition of the while loop
LoopRuns(state, n) == state = "PROCESSING" /\ n < maxAttempts

\* the test after the loop
Throws(state, n) == state = "FAILED" \/ n >= maxAttempts

\* POST up to the loop: the file is uploaded and its state read
PostUpload ==
    /\ uploadPc = "idle"
    /\ Len(uploads) < MaxUploads
    /\ uploadPc' = "loop"
    /\ processedFile' \in FileStates
    /\ attempts' = 0
    /\ UNCHANGED <<uploads, signalVars, dbVars, streamVars, slotVars, apiVars, browserVars,
                   boardVars, chatVars>>

\* one turn of the loop: two seconds later the state is read again
Recheck ==
    /\ uploadPc = "loop"
    /\ LoopRuns(processedFile, attempts)
    /\ processedFile' \in FileStates
    /\ attempts' = attempts + 1
    /\ UNCHANGED <<uploadPc, uploads, signalVars, dbVars, streamVars, slotVars, apiVars,
                   browserVars, boardVars, chatVars>>

\* getFile rejects inside the loop: the catch of the route answers 500
GetFileRejects ==
    /\ uploadPc = "loop"
    /\ LoopRuns(processedFile, attempts)
    /\ uploadPc' = "idle"
    /\ processedFile' = "none"
    /\ attempts' = 0
    /\ uploads' = Append(uploads, "getFile rejected")
    /\ UNCHANGED <<signalVars, dbVars, streamVars, slotVars, apiVars, browserVars, boardVars,
                   chatVars>>

\* the loop is left: the route throws or goes on to generateContent
AfterLoop ==
    /\ uploadPc = "loop"
    /\ ~LoopRuns(processedFile, attempts)
    /\ IF Throws(processedFile, attempts)
       THEN /\ uploadPc' = "idle"
            /\ processedFile' = "none"
            /\ attempts' = 0
            /\ uploads' = Append(uploads, TimedOut)
       ELSE /\ uploadPc' = "generate"
            /\ UNCHANGED <<processedFile, attempts, uploads>>
    /\ UNCHANGED <<signalVars, dbVars, streamVars, slotVars, apiVars, browserVars, boardVars,
                   chatVars>>

\* generateContent and the rest of the route
GenerateContent ==
    /\ uploadPc = "generate"
    /\ uploadPc' = "idle"
    /\ processedFile' = "none"
    /\ attempts' = 0
    /\ uploads' = Append(uploads, "generated")
    /\ UNCHANGED <<signalVars, dbVars, streamVars, slotVars, apiVars, browserVars, boardVars,
                   chatVars>>

NextUpload ==
    \/ PostUpload
    \/ Recheck
    \/ GetFileRejects
    \/ AfterLoop
    \/ GenerateContent

(***************************************************************************)
(* The schedule assistant: handleSubmit reads the streamed answer          *)
(*                                                                         *)
(* A text is a sequence of tokens, each a piece of the answer that is not  *)
(* split further: the opening ```json, a newline, a fence ```, and JSON    *)
(* values; <fence> stands for the three backticks.  The decoder is called  *)
(* with stream: true, so the chunks decoded one after the other give the   *)
(* text that was sent.                                                     *)
(***************************************************************************)
MaxTextLen == 5
MaxStreams == 2

Open == "<fence>json"
LF == "LF"
Fence == "<fence>"

\* JSON values: an array with a complete task, an array with a task without
\* title, an object
JsonValues == { "[t]", "[u]", "{}" }

Tokens == { Open, LF, Fence } \cup JsonValues

Texts == UNION { [1..n -> Tokens] : n \in 0..MaxTextLen }

Null == [found |-> FALSE, tasks |-> <<>>]

Least(S) == CHOOSE x \in S : \A y \in S : x <= y

\* \n``` at position j: the fence, or the start of another ```json
ClosesAt(str, j) == j + 1 <= Len(str) /\ str[j] = LF /\ str[j + 1] \in { Fence, Open }

Closings(str, i) == { j \in (i + 2)..Len(str) : ClosesAt(str, j) }

\* where /```json\n([\s\S]*?)\n```/ can match
Openings(str) ==
    { i \in 1..Len(str) : /\ i + 1 <= Len(str)
                          /\ str[i] = Open /\ str[i + 1] = LF
                          /\ Closings(str, i) # {} }

\* str.match: the leftmost match, its group as short as possible
Match(str) ==
    IF Openings(str) = {} THEN [matched |-> FALSE, group |-> <<>>]
    ELSE LET i == Least(Openings(str))
             j == Least(Closings(str, i))
         IN  [matched |-> TRUE, group |-> SubSeq(str, i + 2, j - 1)]

NotLF(token) == token # LF

\* JSON.parse: one value, white space around it allowed; anything else throws
JSONParse(str) ==
    LET body == SelectSeq(str, NotLF)
    IN  IF Len(body) = 1 /\ body[1] \in JsonValues
        THEN [ok |-> TRUE, value |-> body[1]]
        ELSE [ok |-> FALSE, value |-> ""]

TasksOf(value) ==
    IF value = "[t]" THEN <<CompleteTask>> ELSE <<[CompleteTask EXCEPT !.title = ""]>>

\* the part of the text searched for the json block: the chunk just read
WholeText(text, chunk) == text
Searched(text, chunk) == chunk

\* aiResponseData after the try block of the loop
AfterChunk(str, data) ==
    LET m == Match(str)
        parsed == JSONParse(m.group)
    IN  IF m.matched /\ Len(m.group) > 0 /\ parsed.ok /\ parsed.value \in { "[t]", "[u]" }
        THEN [found |-> TRUE, tasks |-> TasksOf(parsed.value)]
        ELSE data

\* processSuggestedTasks, called when aiResponseData is set
SuggestionsAfter(data, prev) == IF data.found THEN ValidTasks(data.tasks) ELSE prev

\* handleSubmit up to the first read: the server will send some text
OpenStream ==
    /\ streamPc = "idle"
    /\ streams < MaxStreams
    /\ streamPc' = "reading"
    /\ streamRest' \in Texts
    /\ responseText' = <<>>
    /\ aiResponseData' = Null
    /\ UNCHANGED <<streams, signalVars, dbVars, uploadVars, slotVars, apiVars, browserVars,
                   boardVars, chatVars>>

\* reader.read returns a chunk
ReadChunk ==
    \E k \in 1..Len(streamRest) :
        LET chunk == SubSeq(streamRest, 1, k)
        IN  /\ streamPc = "reading"
            /\ responseText' = responseText \o chunk
            /\ aiResponseData' = AfterChunk(Searched(responseText', chunk), aiResponseData)
            /\ streamRest' = SubSeq(streamRest, k + 1, Len(streamRest))
            /\ UNCHANGED <<streamPc, streams, signalVars, dbVars, uploadVars, slotVars,
                           apiVars, browserVars, boardVars, chatVars>>

\* what follows the loop
LeaveLoop ==
    /\ streamPc' = "idle"
    /\ streamRest' = <<>>
    /\ responseText' = <<>>
    /\ aiResponseData' = Null
    /\ streams' = streams + 1
    /\ taskSuggestions' = SuggestionsAfter(aiResponseData, taskSuggestions)
    /\ UNCHANGED <<signalVars, dbVars, uploadVars, slotVars, apiVars, browserVars,
                   boardVars, chat, messages, isLoading, chatCalls>>

\* reader.read returns done
StreamDone ==
    /\ streamPc = "reading"
    /\ streamRest = <<>>
    /\ LeaveLoop

\* reader.read rejects: what was received is used, nothing received throws
StreamBreaks ==
    /\ streamPc = "reading"
    /\ streamRest # <<>>
    /\ LeaveLoop

NextStream ==
    \/ OpenStream
    \/ ReadChunk
    \/ StreamDone
    \/ StreamBreaks

(***************************************************************************)
(* Specifications.  Each one runs one part of the program and holds the    *)
(* variables of the other parts at their initial values.                   *)
(***************************************************************************)
SlotInputs ==
    /\ calendarEvents \in BusyInputs
    /\ taskDuration \in Durations
    /\ \E w \in Windows : startDate = w[1] /\ endDate = w[2]
    /\ availableSlots = <<>>
    /\ slotPc = "ready"

\* The arguments as the caller holds them after a call.  The function sorts
\* a copy of the array ([...calendarEvents].sort) and sets the hours of
\* copies of the dates (new Date(startDate), new Date(currentDate)).
SortedInPlace(events) == SortByStart(events)
ArrayAfterCall(events) == events

HoursSetInPlace(d) == SetHours(d, workingHoursStart)
DateAfterCall(d) == d

\* one call: the slots returned, the arguments after it
RunFindAvailableTimeSlots ==
    /\ availableSlots' =
           findAvailableTimeSlots(calendarEvents, taskDuration, startDate, endDate)
    /\ calendarEvents' = ArrayAfterCall(calendarEvents)
    /\ startDate' = DateAfterCall(startDate)
    /\ endDate' = DateAfterCall(endDate)
    /\ UNCHANGED taskDuration
    /\ UNCHANGED notSlotVars

CallFindAvailableTimeSlots ==
    /\ slotPc = "ready"
    /\ slotPc' = "done"
    /\ RunFindAvailableTimeSlots

\* the caller calls again with the same objects
CallFindAvailableTimeSlotsAgain ==
    /\ slotPc = "done"
    /\ slotPc' = "again"
    /\ RunFindAvailableTimeSlots

IdleSlots ==
    /\ calendarEvents = <<>>
    /\ taskDuration = 60
    /\ startDate = At(5, 0, 0)
    /\ endDate = At(5, 0, 0)
    /\ availableSlots = <<>>
    /\ slotPc = "idle"

\* no refreshTasks event was dispatched
IdleSignals == signals = <<>>

\* the server process has just started: nothing is cached
IdleDb ==
    /\ conn = FALSE
    /\ promise = 0
    /\ connects = <<>>
    /\ callers = <<>>
    /\ listeners = 0

\* no upload is being handled
IdleUpload ==
    /\ uploadPc = "idle"
    /\ processedFile = "none"
    /\ attempts = 0
    /\ uploads = <<>>

\* no stream is being read
IdleStream ==
    /\ streamPc = "idle"
    /\ streamRest = <<>>
    /\ responseText = <<>>
    /\ aiResponseData = [found |-> FALSE, tasks |-> <<>>]
    /\ streams = 0

IdleRest == IdleSignals /\ IdleDb /\ IdleUpload /\ IdleStream

\* the browser is closed
IdleChat ==
    /\ chat = "none"
    /\ messages = <<>>
    /\ isLoading = FALSE
    /\ taskSuggestions = <<>>
    /\ chatCalls = <<>>

IdleBoard ==
    /\ sessionId = ""
    /\ board = "none"
    /\ localTasks = <<>>
    /\ drops = <<>>

IdleBrowser ==
    /\ IdleBoard
    /\ IdleChat
    /\ IdleRest
    /\ now = 0
    /\ lsPositions = NoItem
    /\ lsTimestamp = NoItem
    /\ net = {}
    /\ faults = 0
    /\ drags = <<>>
    /\ toasts = <<>>
    /\ tasks = <<>>
    /\ activeTab = "kanban"
    /\ loading = TRUE
    /\ error = FALSE
    /\ lastCalendarUpdate = FALSE
    /\ gets = {}
    /\ loads = 0
    /\ myEvents = <<>>
    /\ positionsChanged = FALSE
    /\ globalTaskPositions = NoPositions
    /\ taskPositionsRef = NoPositions
    /\ syncClosure = NoClosure

InitSlots == SlotInputs /\ InitApi /\ IdleBrowser

NextSlots == CallFindAvailableTimeSlots

SpecSlots == InitSlots /\ [][NextSlots]_vars

NextSlotsTwice == CallFindAvailableTimeSlots \/ CallFindAvailableTimeSlotsAgain

SpecSlotsTwice == InitSlots /\ [][NextSlotsTwice]_vars

InitApiOnly == IdleSlots /\ InitApi /\ IdleBrowser

SpecApi == InitApiOnly /\ [][NextApi]_vars

\* one POST has been answered; from then on PATCH requests alone arrive
InitPatch ==
    /\ IdleSlots
    /\ IdleBrowser
    /\ \E user \in Users, task \in PostTasks :
           store = POST([id \in TaskIds |-> NoTask], user, task, "A", TRUE).store
    /\ apiLast = NoResponse

NextPatch == ApiPatch

SpecPatch == InitPatch /\ [][NextPatch]_vars

InitCal ==
    /\ IdleSlots
    /\ IdleBoard
    /\ IdleChat
    /\ IdleRest
    /\ store = SessionStore
    /\ apiLast = NoResponse
    /\ InitPage

SpecCal == InitCal /\ [][NextCal]_vars

\* the earlier calendar, mounted with the tasks of the session: the events are
\* made from the task dates and written to local storage
InitRetry ==
    /\ IdleSlots
    /\ IdleBoard
    /\ IdleChat
    /\ IdleRest
    /\ store = SessionStore
    /\ apiLast = NoResponse
    /\ now = Today
    /\ tasks = GET(store, SessionUser, TRUE).tasks
    /\ myEvents = EventsOfTasks(tasks, NoPositions, now)
    /\ lsPositions = PositionsOf(myEvents)
    /\ lsTimestamp = ToISOString(now)
    /\ net = {}
    /\ faults = 0
    /\ drags = <<>>
    /\ toasts = <<>>
    /\ activeTab = "calendar"
    /\ loading = FALSE
    /\ error = FALSE
    /\ lastCalendarUpdate = FALSE
    /\ gets = {}
    /\ loads = 0
    /\ positionsChanged = FALSE
    /\ globalTaskPositions = NoPositions
    /\ taskPositionsRef = NoPositions
    /\ syncClosure = NoClosure

SpecRetry == InitRetry /\ [][NextRetry]_vars

\* the server answers every request (a lost one ends as a rejected fetch),
\* the continuation of an answered fetch runs, and the backoff timer fires
FairRetry ==
    /\ WF_vars(ServeRetried)
    /\ WF_vars(MoveAttemptAnswered)
    /\ WF_vars(ResizeAttemptAnswered)
    /\ WF_vars(BackoffElapsed)

SpecRetryFair == InitRetry /\ [][NextRetry]_vars /\ FairRetry

SpecRetryGone == InitRetry /\ [][NextRetryGone]_vars

\* the page has just been opened on a tab with a session selected; one of the
\* two boards is the one the kanban tab renders
InitBoard ==
    /\ IdleSlots
    /\ IdleChat
    /\ IdleRest
    /\ store = SessionStore
    /\ apiLast = NoResponse
    /\ now = Today
    /\ \E visit \in EarlierVisits :
           lsPositions = visit.positions /\ lsTimestamp = visit.timestamp
    /\ net = {}
    /\ faults = 0
    /\ drags = <<>>
    /\ toasts = <<>>
    /\ tasks = <<>>
    /\ activeTab \in Tabs
    /\ sessionId \in Sessions
    /\ loading = TRUE
    /\ error = FALSE
    /\ lastCalendarUpdate = FALSE
    /\ gets = {FetchClosure(activeTab, sessionId)}
    /\ loads = 0
    /\ myEvents = <<>>
    /\ positionsChanged = FALSE
    /\ globalTaskPositions = NoPositions
    /\ taskPositionsRef = NoPositions
    /\ syncClosure = NoClosure
    /\ board \in BoardVersions
    /\ localTasks = <<>>
    /\ drops = <<>>

SpecBoard == InitBoard /\ [][NextBoard]_vars

\* a signed-in user has opened one of the chat components; nothing is said yet
InitChat ==
    /\ IdleSlots
    /\ InitApi
    /\ IdleBoard
    /\ IdleRest
    /\ now = 0
    /\ lsPositions = NoItem
    /\ lsTimestamp = NoItem
    /\ net = {}
    /\ faults = 0
    /\ drags = <<>>
    /\ toasts = <<>>
    /\ tasks = <<>>
    /\ activeTab = "kanban"
    /\ loading = TRUE
    /\ error = FALSE
    /\ lastCalendarUpdate = FALSE
    /\ gets = {}
    /\ loads = 0
    /\ myEvents = <<>>
    /\ positionsChanged = FALSE
    /\ globalTaskPositions = NoPositions
    /\ taskPositionsRef = NoPositions
    /\ syncClosure = NoClosure
    /\ chat \in ChatVersions
    /\ messages = <<>>
    /\ isLoading = FALSE
    /\ taskSuggestions = <<>>
    /\ chatCalls = <<>>

SpecChat == InitChat /\ [][NextChat]_vars

\* SpecRefresh: the page of SpecCal with refreshTasks events dispatched
SpecRefresh == InitCal /\ [][NextRefresh]_vars

\* SpecLoad: the page is opened on the calendar tab over a store and a cache
\* with any dates
InitLoad ==
    /\ IdleSlots
    /\ IdleBoard
    /\ IdleChat
    /\ IdleRest
    /\ store \in LoadStores
    /\ apiLast = NoResponse
    /\ now = Today
    /\ \E cache \in LoadCaches :
           lsPositions = cache.positions /\ lsTimestamp = cache.timestamp
    /\ net = {}
    /\ faults = 0
    /\ drags = <<>>
    /\ toasts = <<>>
    /\ tasks = <<>>
    /\ activeTab = "calendar"
    /\ loading = TRUE
    /\ error = FALSE
    /\ lastCalendarUpdate = FALSE
    /\ gets = {activeTab}
    /\ loads = 0
    /\ myEvents = <<>>
    /\ positionsChanged = FALSE
    /\ globalTaskPositions = NoPositions
    /\ taskPositionsRef = NoPositions
    /\ syncClosure = NoClosure

SpecLoad == InitLoad /\ [][NextLoad]_vars

\* SpecOwner: two users call the tasks API over tasks of both
InitOwner ==
    /\ IdleSlots
    /\ IdleBrowser
    /\ store \in OwnerStores
    /\ apiLast = NoResponse

SpecOwner == InitOwner /\ [][NextOwner]_vars

\* SpecDb: calls of connectToDatabase in one server process
InitDb == IdleSlots /\ InitApi /\ IdleBrowser

SpecDb == InitDb /\ [][NextDb]_vars

\* SpecUpload: requests to the upload route, one after the other
SpecUpload == InitDb /\ [][NextUpload]_vars

\* SpecStream: answers of the schedule assistant, read chunk by chunk
SpecStream == InitDb /\ [][NextStream]_vars

(***************************************************************************)
(* Claims about the tasks API (checked under SpecApi)                      *)
(***************************************************************************)
StoredTasks == { id \in TaskIds : store[id] # NoTask }

\* C4: after any sequence of createTasks, PUT and patchTask calls every stored
\* task that has both dates satisfies startDate <= dueDate.
C4_StoredDatesOrdered ==
    \A id \in StoredTasks :
        (store[id].startDate # Absent /\ store[id].dueDate # Absent) =>
            store[id].startDate.t <= store[id].dueDate.t

(***************************************************************************)
(* Claims about findAvailableTimeSlots (checked under SpecSlots)           *)
(***************************************************************************)
SlotIndexes == 1..Len(availableSlots)
BusyIndexes == 1..Len(calendarEvents)

\* half-open intervals [a, b) and [c, d) share an instant
Overlap(a, b, c, d) == a < d /\ c < b

\* C5: with D > 0, every returned slot is at least D minutes long (end minus
\* start), the slot of a business day without busy slots included.
C5_EverySlotHoldsDuration ==
    slotPc = "done" =>
        \A i \in SlotIndexes :
            availableSlots[i].end - availableSlots[i].start >= taskDuration

\* C6: no returned slot overlaps an input busy slot, whether the busy slots
\* are disjoint, overlap each other or contain one another.
C6_NoSlotOverlapsBusy ==
    slotPc = "done" =>
        \A i \in SlotIndexes : \A j \in BusyIndexes :
            ~Overlap(availableSlots[i].start, availableSlots[i].end,
                     calendarEvents[j].start, calendarEvents[j].end)

\* C6 witness: busy [10:00,11:00) and [10:30,12:00) on the Friday, duration
\* 60: the call has returned slots and none of them meets [10:00,12:00).
C6_Witness ==
    /\ slotPc = "done"
    /\ calendarEvents = << [start |-> At(5, 10, 0), end |-> At(5, 11, 0)],
                           [start |-> At(5, 10, 30), end |-> At(5, 12, 0)] >>
    /\ taskDuration = 60
    /\ \E i \in SlotIndexes : availableSlots[i].start = At(5, 12, 0)
    /\ \A i \in SlotIndexes :
           ~Overlap(availableSlots[i].start, availableSlots[i].end,
                    At(5, 10, 0), At(5, 12, 0))

\* C7: every returned slot lies within 09:00-17:00 of one Monday-to-Friday
\* day; none falls on a Saturday or a Sunday.
C7_SlotsInWorkingHours ==
    slotPc = "done" =>
        \A i \in SlotIndexes :
            LET s == availableSlots[i]
            IN  /\ GetDay(s.start) \notin {0, 6}
                /\ SetHours(s.start, 9) <= s.start
                /\ s.start < s.end
                /\ s.end <= SetHours(s.start, 17)

\* C7 witness: the window starts on the Saturday, a busy slot lies on the
\* weekend, and the call returned a slot (on the Monday).
C7_Witness ==
    /\ slotPc = "done"
    /\ GetDay(startDate) = 6
    /\ \E j \in BusyIndexes : GetDay(calendarEvents[j].start) = 6
    /\ \E i \in SlotIndexes : GetDay(availableSlots[i].start) = 1

\* the business days whose working hours meet the horizon [startDate, endDate)
HorizonDays ==
    { d \in (startDate \div DayLen)..(endDate \div DayLen) :
        /\ (d % 7) \notin {0, 6}
        /\ At(d, 9, 0) < endDate
        /\ At(d, 17, 0) > startDate }

\* the half-hour cells of the working hours of day d (all inputs lie on them)
Cells(d) == { At(d, 9, 0) + 30 * k : k \in 0..15 }

CellBusy(t) ==
    \E j \in BusyIndexes :
        Overlap(t, t + 30, calendarEvents[j].start, calendarEvents[j].end)

\* the maximal intervals of day d's working hours that no busy slot covers:
\* each starts at 09:00 or right after a busy cell, and runs to the next busy
\* cell or to 17:00
MaximalFree(d) ==
    LET busyCells == { t \in Cells(d) : CellBusy(t) }
        starts == { a \in Cells(d) \ busyCells :
                      a = At(d, 9, 0) \/ (a - 30) \in busyCells }
        stop(a) == LET later == { t \in busyCells : t > a }
                   IN  IF later = {} THEN At(d, 17, 0)
                       ELSE CHOOSE t \in later : \A u \in later : t <= u
    IN  { <<a, stop(a)>> : a \in starts }

NoBusyOn(d) ==
    \A j \in BusyIndexes :
        ~Overlap(At(d, 0, 0), At(d + 1, 0, 0),
                 calendarEvents[j].start, calendarEvents[j].end)

SlotsWith(a, b) ==
    { i \in SlotIndexes : availableSlots[i].start = a /\ availableSlots[i].end = b }

SlotsOn(d) ==
    { i \in SlotIndexes : availableSlots[i].start \div DayLen = d }

\* C8: completeness.  On every business day of the horizon each maximal
\* uncovered interval of the working hours that is at least D long is returned
\* as exactly one slot (a gap of exactly D too), and a day without busy slots
\* yields exactly one slot, 09:00-17:00.
C8_EveryFreeIntervalReturned ==
    slotPc = "done" =>
        \A d \in HorizonDays :
            /\ \A iv \in MaximalFree(d) :
                   iv[2] - iv[1] >= taskDuration =>
                       Cardinality(SlotsWith(iv[1], iv[2])) = 1
            /\ NoBusyOn(d) =>
                   /\ Cardinality(SlotsOn(d)) = 1
                   /\ Cardinality(SlotsWith(At(d, 9, 0), At(d, 17, 0))) = 1

\* C8 witness: a gap of exactly D (09:00-10:00 before a busy 10:00-17:00,
\* D = 60) was returned, and the Monday, free of busy slots, gave 09:00-17:00.
C8_Witness ==
    /\ slotPc = "done"
    /\ taskDuration = 60
    /\ calendarEvents = << [start |-> At(5, 10, 0), end |-> At(5, 17, 0)] >>
    /\ SlotsWith(At(5, 9, 0), At(5, 10, 0)) # {}
    /\ SlotsWith(At(8, 9, 0), At(8, 17, 0)) # {}

(***************************************************************************)
(* Claims about the calendar (checked under SpecCal)                       *)
(***************************************************************************)
CallsFor(id) == { d \in 1..Len(drags) : drags[d].task = id }

\* no later call moved the same task
LastCall(d) == \A e \in CallsFor(drags[d].task) : e <= d

\* every request has completed and no call awaits anything
Quiet == net = {} /\ \A d \in 1..Len(drags) : ~Pending(drags[d])

\* C1: when a task is dragged a second time while the request of its first
\* drag is still pending, then once every request has completed the displayed
\* and the stored position of the task are both the second drag's target,
\* whatever the order in which requests and answers arrive (no request fails,
\* the calendar stays on screen).
C1_SecondDragWins ==
    \A d \in 1..Len(drags) :
        ( /\ drags[d].concurrent /\ LastCall(d)
          /\ Quiet /\ Mounted /\ loads = 0 /\ faults = 0 )
        => /\ Displayed(drags[d].task) = drags[d].place
           /\ Stored(drags[d].task) = drags[d].place

\* nothing is in flight and no flush is owed any more
Settled == Quiet /\ ~positionsChanged

\* C3: no drag or resize is silently discarded: once nothing is pending any
\* more, for the last edit of every task either the store holds the edited
\* position or an error notification was shown for that edit.
C3_NoSilentDiscard ==
    Settled =>
        \A d \in 1..Len(drags) :
            LastCall(d) =>
                \/ Stored(drags[d].task) = drags[d].place
                \/ toasts[d].error > 0

\* the cache in local storage is older than the freshness window
CacheStale ==
    /\ lsPositions # NoItem
    /\ lsTimestamp = NoItem \/ ~Fresh(lsTimestamp, now)

\* a fetchTasks completes with the tasks of the store
TasksLoaded == gets' # gets /\ gets' \subseteq gets /\ loads' = loads /\ ~error'

\* C9: on load a cached position is applied over the fetched dates only while
\* the cache is within its freshness window: when fetchTasks completes while
\* the cache is stale, the tasks it sets carry the dates fetched from the store.
C9_StaleCacheNeverApplied ==
    [][ (TasksLoaded /\ CacheStale) => tasks' = GET(store, SessionUser, TRUE).tasks ]_vars

\* the answer to the drag request r is handled in this step
Handled(r) ==
    /\ r \in Answered(net) /\ r \notin net'
    /\ r.from = "drag"
    /\ drags[r.n].pc = "fetch" /\ drags'[r.n].pc = "done"

\* C10: tasks are reconciled independently: while a drag request for task A is
\* in flight, the answer to a drag request for another task B changes neither
\* the displayed position of A nor whether the edits on screen are still
\* marked as to be flushed.
C10_OtherTaskUntouched ==
    [][ \A r \in net, a \in net :
          ( /\ Handled(r)
            /\ a.from = "drag" /\ a.task # r.task /\ a \in net' )
          => /\ Displayed(a.task)' = Displayed(a.task)
             /\ positionsChanged' = positionsChanged ]_vars

(***************************************************************************)
(* The retrying moveEvent                                                  *)
(***************************************************************************)
\* a moveEvent call whose every attempt failed, the only call on its task
GaveUp(d) == /\ drags[d].kind = "move" /\ drags[d].pc = "done"
             /\ drags[d].retries >= maxRetries
             /\ CallsFor(drags[d].task) = {d}

HandledRetry(r) == /\ r \in Answered(net) /\ r \notin net'
                   /\ drags[r.n].pc = "fetch" /\ drags'[r.n].pc = "done"

\* a newer call on the same task has completed
Superseded(d) == \E e \in CallsFor(drags[d].task) : e > d /\ drags[e].pc = "done"

\* C11: once a newer drag/resize of task T has completed, the answer to a
\* superseded request for T, success or failure, leaves the displayed
\* position of T as it is
C11_SupersededAnswerIgnored ==
    [][ \A r \in net :
          ( HandledRetry(r) /\ Superseded(r.n) )
          => Displayed(r.task)' = Displayed(r.task) ]_vars

(***************************************************************************)
(* The bounded retry loop (checked under SpecRetryFair)                    *)
(***************************************************************************)
\* no call has sent more than three requests, and while a call is still
\* trying, the event of its task is shown where it was dropped (for a task
\* with no other call)
RetriesBounded ==
    \A d \in 1..Len(drags) :
        /\ drags[d].requests <= 3
        /\ ( Pending(drags[d]) /\ CallsFor(drags[d].task) = {d} )
           => Displayed(drags[d].task) = drags[d].place

\* every call that is trying comes to an end: at any time, the d-th call
\* is, now or later, not trying
RetryLoopEnds ==
    \A d \in 1..MaxDrags :
        []<>~( d <= Len(drags) /\ Pending(drags[d]) )

\* C12: a drag whose request keeps failing sends at most 3 requests and its
\* retry loop then ends; while it is still retrying the event stays shown at
\* the dragged target
C12_RetryBoundedAndEnds == []RetriesBounded /\ RetryLoopEnds

\* a move that failed three times: three requests were sent, the loop ended
C12_Witness ==
    \E d \in 1..Len(drags) :
        /\ drags[d].kind = "move" /\ drags[d].requests = 3
        /\ drags[d].retries = 3 /\ ~Pending(drags[d])

(***************************************************************************)
(* Claims about the kanban board (checked under SpecBoard)                 *)
(***************************************************************************)
\* the dates the priority order gives a task completed now: the position the
\* calendar holds in memory, else the one in local storage, else the hour
\* that just passed
DatesByPriority(id) ==
    IF globalTaskPositions[id] # NoPos THEN globalTaskPositions[id]
    ELSE IF lsPositions # NoItem /\ lsPositions[id] # NoPos THEN lsPositions[id]
    ELSE PosOf(HourNow - 1, HourNow)

\* a step in which the board that infers dates handles a drop
Dropped == board = "part_014" /\ Len(drops') = Len(drops) + 1

\* C13: the PATCH of a drop into the done column carries the dates of the
\* in-memory calendar position of the task when there is one, else those of
\* the position cached in local storage when there is one, else [now - 1h,
\* now]; the PATCH of a drop into another column carries the status only.
C13_DoneDatesByPriority ==
    [][ Dropped =>
          LET drop == drops'[Len(drops')]
          IN  IF drop.to = "done"
              THEN /\ drop.body.status = "done"
                   /\ drop.body.startDate = DatesByPriority(drop.task).start
                   /\ drop.body.dueDate = DatesByPriority(drop.task).end
              ELSE drop.body = StatusBody(drop.to) ]_vars

\* a step in which the continuation of the failed PATCH of a drop has run
FailureHandled(r) ==
    /\ r \in Answered(net) /\ r.from = "drop" /\ ~ResponseOk(r)
    /\ drops[r.n].pc = "fetch" /\ drops'[r.n].pc = "done"

\* C14: when the PATCH of a drop fails, the task is shown with the status it
\* had before the drag and an error the user can see is emitted.
C14_FailedDropRevertsAndReports ==
    [][ \A r \in net :
          FailureHandled(r) =>
              /\ drops'[r.n].error > 0
              /\ ( BoardShown' /\ r.then = "live" )
                 => DisplayedStatus(r.task)' = drops[r.n].from ]_vars

(***************************************************************************)
(* Claims about PATCH /api/tasks/[id] (checked under SpecPatch)            *)
(***************************************************************************)
BothDates(body) == body.startDate.kind = "date" /\ body.dueDate.kind = "date"

OneDate(body) ==
    \/ body.startDate.kind = "date" /\ body.dueDate = Absent
    \/ body.startDate = Absent /\ body.dueDate.kind = "date"

\* the answer to a patch that passes the validation
Accepted(r, user, id, body) ==
    IF Owned(store, user, id)
    THEN r.status = 200 /\ r.store[id] = PatchApply(store[id], body)
    ELSE r.status = 404

\* C15: a patch with both dates and startDate > dueDate is answered 400 and
\* the store is left as it was; a patch with both dates equal is accepted,
\* and so is a patch with only one of the two dates.
C15_StartAfterDueRejected ==
    \A user \in Users, id \in TaskIds, body \in PatchBodies :
        LET r == PATCH(store, user, id, body, TRUE)
        IN  /\ ( BothDates(body) /\ body.startDate.t > body.dueDate.t )
               => r.status = 400 /\ r.store = store
            /\ ( BothDates(body) /\ body.startDate.t = body.dueDate.t )
               => Accepted(r, user, id, body)
            /\ OneDate(body) => Accepted(r, user, id, body)

\* a PATCH was refused for its date order while a task is stored
C15_Witness ==
    /\ apiLast.op = "PATCH" /\ apiLast.status = 400
    /\ apiLast.error = "Start date cannot be after due date"
    /\ StoredTasks # {}

(***************************************************************************)
(* Claims about a task that is gone (checked under SpecRetryGone)          *)
(***************************************************************************)
\* a step in which the continuation of a 404 answer to a drag or resize runs
NotFoundHandled(r) ==
    /\ r \in Answered(net) /\ r.from = "drag" /\ r.status = 404
    /\ r \notin net'

RequestsOf(requests, d) == { q \in requests : q.from = "drag" /\ q.n = d }

\* C16: when a drag or resize is answered 404, an error toast is shown at
\* once and no further request is made for that edit.
C16_NotFoundSurfacedNoRetry ==
    [][ \A r \in net :
          NotFoundHandled(r) =>
              /\ toasts'[r.n].error = toasts[r.n].error + 1
              /\ ~Pending(drags'[r.n])
              /\ RequestsOf(net', r.n) = {} ]_vars

(***************************************************************************)
(* Claims about the chat (checked under SpecChat)                          *)
(***************************************************************************)
\* a task with a validation error: a required field missing or blank, or a
\* date that does not parse
InvalidTask(task) ==
    \/ Trim(task.title) = "" \/ Trim(task.description) = ""
    \/ IsNaN(task.startDate) \/ IsNaN(task.dueDate)

\* C17: no fetch is sent on behalf of a task that has a validation error.
C17_InvalidTaskSendsNothing ==
    \A n \in 1..Len(chatCalls) :
        ( chatCalls[n].kind = "add" /\ InvalidTask(chatCalls[n].task) )
            => chatCalls[n].fetches = <<>>

\* the answer held no usable list of tasks: no json block, one that does not
\* parse, or one that parses to something else than an array
NoTaskList(reply) == reply.block \in { "none", "unparsable", "null", "object" }

\* C18: when the answer of the assistant holds no usable list of tasks, no
\* task is extracted and the response is delivered all the same: the chat
\* shows the answer, the upload is answered 200.
C18_ExtractionNeverFails ==
    \A n \in 1..Len(chatCalls) :
        LET call == chatCalls[n]
        IN  ( call.pc = "done" /\ ~call.failed /\ NoTaskList(call.reply) ) =>
                /\ call.extracted = <<>>
                /\ call.kind = "submit"
                   => \E i \in 1..Len(messages) : messages[i] = AssistantMessage(call.reply)
                /\ call.kind = "upload" => call.status = 200

IsPrefix(a, b) == Len(a) <= Len(b) /\ SubSeq(b, 1, Len(a)) = a

\* C19: when the call of the language model fails, an error is shown, the
\* messages of the conversation, the prompt just sent among them, are all
\* still there, and isLoading is cleared.
C19_FailureKeepsConversation ==
    [][ \A n \in 1..Len(chatCalls) :
          ( chatCalls[n].pc = "stream" /\ chatCalls'[n].failed ) =>
              /\ chatCalls'[n].error + chatCalls'[n].warning
                     > chatCalls[n].error + chatCalls[n].warning
              /\ IsPrefix(chatCalls[n].newMessages, messages')
              /\ IsPrefix(messages, messages')
              /\ ~isLoading' ]_vars

\* the model failed on the second prompt of a conversation
C19_Witness ==
    \E n \in 1..Len(chatCalls) :
        /\ chatCalls[n].kind = "submit" /\ chatCalls[n].failed
        /\ Len(chatCalls[n].newMessages) >= 3
        /\ ~isLoading

(***************************************************************************)
(* Claims about repeated calls of the slot finder (checked under           *)
(* SpecSlotsTwice)                                                         *)
(***************************************************************************)
\* a step in which a call of findAvailableTimeSlots returns
Returned == slotPc' # slotPc

C25_SlotsChronological ==
    slotPc = "done" =>
        /\ \A i \in SlotIndexes : \A j \in SlotIndexes :
               i < j => availableSlots[i].end <= availableSlots[j].start
        /\ \A i \in SlotIndexes : \A j \in SlotIndexes :
               i # j => ~Overlap(availableSlots[i].start, availableSlots[i].end,
                                 availableSlots[j].start, availableSlots[j].end)

\* C25 witness: the busy slots were given out of order, and the call returned
\* two slots on the Friday and one on the Monday.
C25_Witness ==
    /\ slotPc = "done"
    /\ calendarEvents # SortByStart(calendarEvents)
    /\ Cardinality({ i \in SlotIndexes : GetDay(availableSlots[i].start) = 5 }) >= 2
    /\ \E i \in SlotIndexes : GetDay(availableSlots[i].start) = 1

\* C26: every returned slot lies inside the horizon: none starts before
\* windowStart and none ends after windowEnd, also when windowStart is later
\* than 09:00 or windowEnd earlier than 17:00 on its day.
C26_SlotsInsideHorizon ==
    slotPc = "done" =>
        \A i \in SlotIndexes :
            /\ startDate <= availableSlots[i].start
            /\ availableSlots[i].end <= endDate

(***************************************************************************)
(* Claims about the calendar of TaskCalendar.tsx (checked under SpecCal)   *)
(***************************************************************************)
\* a step in which moveEvent or resizeEvent is called
DragStarted == Len(drags') = Len(drags) + 1

\* the events shown for a task after the step
ShownAfter(id) == SelectSeq(myEvents', LAMBDA ev : ev.id = id)

\* the requests the call has issued, after the step
IssuedBy(d) == { r \in net' : r.from = "drag" /\ r.n = d }

\* C21: when moveEvent or resizeEvent is called, and before any answer of
\* the store, the list shown holds exactly one event for the task, with the
\* new start and end, and the call has issued one persistence request that
\* carries the same dates.
C21_AppliedAtOnceAndRequested ==
    [][ DragStarted =>
          LET d == Len(drags')
              call == drags'[d]
          IN  /\ Len(ShownAfter(call.task)) = 1
              /\ ShownAfter(call.task)[1].start = call.place[1]
              /\ ShownAfter(call.task)[1].end = call.place[2]
              /\ Cardinality(IssuedBy(d)) = 1
              /\ \A r \in IssuedBy(d) :
                     /\ r.stage = "sent"
                     /\ r.task = call.task
                     /\ r.body.startDate = ToISOString(call.place[1])
                     /\ r.body.dueDate = ToISOString(call.place[2]) ]_vars

\* C21 witness: a task was dragged twice; the second call still awaits its
\* answer, its request is on the way with the new dates, and the one event
\* shown for the task has them.
C21_Witness ==
    /\ Len(drags) = 2
    /\ drags[1].task = drags[2].task
    /\ drags[2].pc = "fetch"
    /\ \E r \in Sent(net) :
           /\ r.from = "drag" /\ r.n = 2
           /\ r.body = PositionBody(drags[2].place[1], drags[2].place[2], FALSE)
    /\ Displayed(drags[2].task) = drags[2].place
    /\ Len(SelectSeq(myEvents, LAMBDA ev : ev.id = drags[2].task)) = 1

\* a step in which a fetchTasks is answered and the calendar shows the tasks
Loaded == loading /\ ~loading' /\ ~error' /\ activeTab = "calendar"

\* the positions cached for a task: the one of the map kept in memory and
\* the one of the local-storage cache while it is fresh, as <<start, end>>
CachedPositions(id) ==
    { <<NewDate(p.start), NewDate(p.end)>> :
        p \in ({ globalTaskPositions[id] } \cup
               IF CacheUsable(lsPositions, lsTimestamp, now)
               THEN { lsPositions[id] } ELSE {}) \ { NoPos } }

\* no cache holds a position for the task, fresh or not
NotCached(id) ==
    /\ globalTaskPositions[id] = NoPos
    /\ lsPositions = NoItem \/ lsPositions[id] = NoPos

\* the event shown for a task after the step, as <<start, end>>
DisplayedAfter(id) ==
    IF Len(ShownAfter(id)) = 0 THEN <<>>
    ELSE <<ShownAfter(id)[1].start, ShownAfter(id)[1].end>>

\* C22: on load, a task with a fresh cached position is shown at a cached
\* start and end, whatever the fetched startDate and dueDate are; a task
\* without a cached position is shown at its fetched dates.
C22_CachedPositionWinsOnLoad ==
    [][ Loaded =>
          \A i \in 1..Len(tasks') :
              LET id == tasks'[i].id
              IN  /\ CachedPositions(id) # {}
                        => DisplayedAfter(id) \in CachedPositions(id)
                  /\ NotCached(id)
                        => DisplayedAfter(id) =
                              EventDates(store[id].startDate, store[id].dueDate, now)
      ]_vars

\* C22 witness: task A was dragged and the store refused the change, the
\* page was reloaded within the day, and the calendar now shows A at the
\* cached position while the store holds other dates; B, which has the same
\* dates in the cache and in the store, is shown at them.
C22_Witness ==
    /\ Mounted
    /\ loads > 0
    /\ Len(drags) > 0 /\ drags[1].pc = "gone"
    /\ CacheUsable(lsPositions, lsTimestamp, now)
    /\ HasEvent(myEvents, "A") /\ HasEvent(myEvents, "B")
    /\ Displayed("A") # Stored("A")
    /\ Displayed("A") = <<NewDate(lsPositions["A"].start), NewDate(lsPositions["A"].end)>>
    /\ Displayed("B") = Stored("B")

(***************************************************************************)
(* Claims about the refreshTasks events (checked under SpecRefresh)        *)
(***************************************************************************)
\* a step of a drag or a resize: the call of moveEvent or resizeEvent, or
\* the arrival of the answer to its PATCH
PositionChange ==
    \/ Len(drags') = Len(drags) + 1
    \/ \E d \in 1..Len(drags) : Len(drags') = Len(drags) /\ drags'[d].pc # drags[d].pc

\* a step in which a refreshTasks event with action 'update' reaches
\* TaskList while the calendar tab is active
UpdateReceivedOnCalendar ==
    /\ Len(signals') = Len(signals) + 1
    /\ signals'[Len(signals')].action = "update"
    /\ activeTab = "calendar"

\* C23: a drag or resize of the calendar dispatches no refreshTasks event,
\* and an event with action 'update' received while the calendar tab is
\* active makes TaskList fetch nothing: no GET is sent, the spinner does not
\* appear and the events shown stay.
C23_PositionChangeRefreshesNothing ==
    [][ /\ PositionChange => signals' = signals
        /\ UpdateReceivedOnCalendar =>
               /\ gets' = gets
               /\ loading' = loading
               /\ tasks' = tasks
               /\ myEvents' = myEvents ]_vars

\* C23 witness: an event was moved on the calendar and the answer came, an
\* 'update' event was received on the calendar tab, and the calendar is
\* still shown with its events and no fetch in flight.
C23_Witness ==
    /\ Mounted
    /\ Len(myEvents) > 0
    /\ gets = {}
    /\ \E d \in 1..Len(drags) : drags[d].pc = "done"
    /\ \E i \in 1..Len(signals) :
           signals[i].action = "update" /\ signals[i].tab = "calendar"

(***************************************************************************)
(* Claims about the events built on load (checked under SpecLoad)          *)
(***************************************************************************)
\* the date fields the event of a task is built from: those of its cached
\* position (the map in memory, else the fresh local-storage cache), else
\* those of the task as fetchTasks set it
SourceDates(task) ==
    LET inMemory == globalTaskPositions # NoPositions
        cached == IF inMemory THEN globalTaskPositions[task.id]
                  ELSE IF CacheUsable(lsPositions, lsTimestamp, now)
                  THEN lsPositions[task.id]
                  ELSE NoPos
    IN  IF cached # NoPos THEN cached
        ELSE [start |-> task.startDate, end |-> task.dueDate]

\* C24: every event built on load from a task, with or without a cached
\* position, has valid dates with start before end: a missing or invalid
\* start becomes the start of today, and an end that is missing, invalid or
\* not after the start becomes start + 1 hour.
C24_LoadedEventsWellFormed ==
    [][ Loaded =>
          \A i \in 1..Len(tasks') :
              LET from == SourceDates(tasks'[i])
                  shown == DisplayedAfter(tasks'[i].id)
              IN  /\ shown # <<>>
                  /\ shown[1] # NaN /\ shown[2] # NaN
                  /\ shown[1] < shown[2]
                  /\ shown[1] = IF from.start.kind = "date" THEN from.start.t
                                ELSE StartOfDay(now)
                  /\ shown[2] = IF from.end.kind = "date" /\ from.end.t > shown[1]
                                THEN from.end.t
                                ELSE AddHours(shown[1], 1) ]_vars

\* C24 witness: the calendar shows task A from a cached position whose end
\* is not after its start and task B from a task without a start and with a
\* dueDate that does not parse.
C24_Witness ==
    /\ Mounted
    /\ loads = 0
    /\ store["B"].startDate = Absent /\ store["B"].dueDate = Invalid
    /\ Displayed("B") = <<StartOfDay(now), AddHours(StartOfDay(now), 1)>>
    /\ lsPositions # NoItem
    /\ Displayed("A") = <<2, 3>>
    /\ store["A"].startDate = DateOf(1) /\ store["A"].dueDate = DateOf(2)

(***************************************************************************)
(* Claims about the owners of the tasks (checked under SpecOwner)          *)
(***************************************************************************)
\* the tasks a call changed or removed
Touched == { id \in TaskIds : store[id] # NoTask /\ store'[id] # store[id] }

\* the tasks a call created
Created == { id \in TaskIds : store[id] = NoTask /\ store'[id] # NoTask }

\* C27: a call of the tasks API by user U returns, changes and deletes only
\* tasks whose userId is U, and stores every task it creates with userId U,
\* whatever userId the body carries.
C27_OwnershipIsolation ==
    [][ /\ \A id \in Touched : store[id].userId = apiLast'.user
        /\ \A id \in Created : store'[id].userId = apiLast'.user
        /\ \A id \in apiLast'.returned : store[id].userId = apiLast'.user ]_vars

(***************************************************************************)
(* C28  connectToDatabase is single-flight.  While no connection is cached *)
(* at most one mongoose.connect is in flight and the callers that wait all *)
(* wait for that one, so they receive the same connection; and the step    *)
(* at which a connect fails leaves cached.conn and cached.promise null, so *)
(* the cache never holds a failed connect and the next call starts a new   *)
(* one.                                                                    *)
(***************************************************************************)
InFlight == { k \in 1..Len(connects) : connects[k] = "pending" }

Waited == { callers[c].awaits : c \in { d \in 1..Len(callers) : callers[d].pc = "await" } }

OneConnectInFlight ==
    /\ ~conn => Cardinality(InFlight) <= 1
    /\ Cardinality(Waited) <= 1

FailedConnectCleared ==
    /\ promise # NoPromise => connects[promise] # "failed"
    /\ \A k \in 1..Len(connects) :
          connects[k] = "pending" /\ connects'[k] = "failed"
              => ~conn' /\ promise' = NoPromise

C28_SingleFlight == [][OneConnectInFlight' /\ FailedConnectCleared]_vars

(***************************************************************************)
(* C29  The polling loop of the upload route reads the state of the file   *)
(* again at most ten times, and when the loop is left with the file in a   *)
(* state that is neither PROCESSING nor FAILED, also after the tenth       *)
(* reading, the route goes on to generateContent and does not throw        *)
(* 'File processing failed or timed out'.                                  *)
(***************************************************************************)
LoopLeft == uploadPc = "loop" /\ ~LoopRuns(processedFile, attempts)

C29_PollingBoundedAndReadyFileUsed ==
    [][ /\ attempts' <= maxAttempts
        /\ LoopLeft /\ processedFile \notin { "PROCESSING", "FAILED" }
              => uploadPc' = "generate" ]_vars

(***************************************************************************)
(* C30  The suggestions the schedule assistant records do not depend on    *)
(* the chunks in which the answer arrives: when a stream was read to its   *)
(* end, the suggestions are those of the json block of the whole text.     *)
(***************************************************************************)
ReadToTheEnd == streamPc = "reading" /\ streamRest = <<>> /\ streamPc' = "idle"

C30_ChunkingIndependent ==
    [][ ReadToTheEnd =>
            taskSuggestions' = SuggestionsAfter(AfterChunk(responseText, Null),
                                                taskSuggestions) ]_vars

====
